---- MODULE Spec2Model ----
(***************************************************************************)
(* PULSE-AI stress prediction backend (Backend/app.py, Backend/schemas.py). *)
(*                                                                         *)
(* The specifications of this module:                                     *)
(*   SpecV  the request validator (StressPredictionRequest) applied to raw *)
(*          request bodies drawn from RawInputs;                           *)
(*   Spec   the service: startup_event, predict_stress, health_check,      *)
(*          the debug endpoint, and the wall clock;                        *)
(*   SpecM  the stand-alone ModelService of services/model_service.py:     *)
(*          load_model and predict on drawn files, inputs and classifier   *)
(*          behaviours.                                                    *)
(*                                                                         *)
(* Units: hour-valued float fields are held in hundredths of an hour       *)
(* (7.5 h = 750), confidence and model_score in hundredths (0.8 = 80),     *)
(* time in minutes.                                                        *)
(***************************************************************************)
EXTENDS Integers, Sequences, FiniteSets, TLC

VARIABLES
    \* ---- validator specification (SpecV)
    raw_input,        \* the raw request body handed to the validator
    validation,       \* the validator's outcome for raw_input
    \* ---- service specification (Spec)
    phase,            \* "uninit" | "loading" | "running": position of startup_event
    fs,               \* the two candidate artifact files (read-only environment)
    model_files,      \* startup_event's list of candidate files still to try
    model_loaded,     \* global model_loaded
    model_service,    \* global model_service (is_none = TRUE models None)
    model_path,       \* global model_path
    prediction_cache, \* global prediction_cache: cache key -> entry
    now,              \* datetime.now(), in minutes
    last,             \* the most recent endpoint call at the current instant
    \* ---- model-service specification (SpecM)
    service,          \* a services/model_service.py ModelService object
    service_ret       \* the most recent operation on it and what it returned

vars == <<raw_input, validation, phase, fs, model_files, model_loaded,
          model_service, model_path, prediction_cache, now, last,
          service, service_ret>>

-----------------------------------------------------------------------------
(* Raw JSON values.                                                        *)

Num(n) == [k |-> "num", n |-> n, s |-> ""]
Str(s) == [k |-> "str", n |-> 0, s |-> s]
Absent == [k |-> "absent", n |-> 0, s |-> ""]

(* schemas.py: the 13 declared fields, in declaration order.               *)
FieldNames ==
    << "age", "gender", "sleep_duration", "sleep_quality", "physical_activity",
       "screen_time", "caffeine_intake", "smoking_habit", "work_hours",
       "travel_time", "social_interactions", "meditation_practice",
       "exercise_type" >>

FieldSet == {FieldNames[i] : i \in 1..Len(FieldNames)}

IntFields == {"age", "sleep_quality", "physical_activity", "caffeine_intake",
              "social_interactions"}
FloatFields == {"sleep_duration", "screen_time", "work_hours", "travel_time"}
NumericFields == IntFields \cup FloatFields
EnumFields == {"gender", "smoking_habit", "meditation_practice", "exercise_type"}

GenderEnum == {"Male", "Female"}
SmokingHabitEnum == {"Yes", "No"}
MeditationPracticeEnum == {"Yes", "No"}
ExerciseTypeEnum == {"Cardio", "Yoga", "Strength Training", "Aerobics",
                     "Walking", "Pilates"}
StressLevelEnum == {"Low", "Medium", "High"}

EnumOf(f) ==
    CASE f = "gender" -> GenderEnum
      [] f = "smoking_habit" -> SmokingHabitEnum
      [] f = "meditation_practice" -> MeditationPracticeEnum
      [] f = "exercise_type" -> ExerciseTypeEnum

(* Field(..., ge=, le=): inclusive bounds; float fields in hundredths.     *)
FieldGe(f) ==
    CASE f = "age" -> 18
      [] f = "sleep_duration" -> 400
      [] f = "sleep_quality" -> 1
      [] f = "physical_activity" -> 0
      [] f = "screen_time" -> 100
      [] f = "caffeine_intake" -> 0
      [] f = "work_hours" -> 400
      [] f = "travel_time" -> 0
      [] f = "social_interactions" -> 1

FieldLe(f) ==
    CASE f = "age" -> 65
      [] f = "sleep_duration" -> 1200
      [] f = "sleep_quality" -> 5
      [] f = "physical_activity" -> 5
      [] f = "screen_time" -> 1400
      [] f = "caffeine_intake" -> 8
      [] f = "work_hours" -> 1600
      [] f = "travel_time" -> 400
      [] f = "social_interactions" -> 5

(* The validation of one declared field: "ok" or the pydantic error type.  *)
(* A field yields at most one error: presence, then the type, then the     *)
(* bounds (the field_validator functions repeat the same bounds and run    *)
(* only on a value that passed them).                                      *)
FieldError(f, raw) ==
    IF f \notin DOMAIN raw THEN "missing"
    ELSE IF f \in NumericFields THEN
        IF raw[f].k # "num" THEN "parsing"
        ELSE IF raw[f].n < FieldGe(f) THEN "greater_than_equal"
        ELSE IF raw[f].n > FieldLe(f) THEN "less_than_equal"
        ELSE "ok"
    ELSE IF raw[f].k # "str" \/ raw[f].s \notin EnumOf(f) THEN "enum"
    ELSE "ok"

(* round(v, 1) on a value in hundredths: the nearest tenth. The inputs of  *)
(* this model avoid exact halves (x.x5), whose direction in Python depends *)
(* on the binary representation of the float.                              *)
Round1(v) == ((v + 5) \div 10) * 10

(* Names a request body may carry beyond the declared ones.                *)
ExtraNames == << "bmi", "user_id" >>
ExtraSet == {ExtraNames[i] : i \in 1..Len(ExtraNames)}
AllNames == FieldSet \cup ExtraSet

IsError(e) == e.type # "ok"

(* One entry per declared field that fails, in declaration order.          *)
FieldErrors(raw) ==
    SelectSeq([i \in 1..Len(FieldNames) |->
                  [field |-> FieldNames[i], type |-> FieldError(FieldNames[i], raw)]],
              IsError)

(* Config.extra = "forbid": one error for each undeclared name.            *)
ExtraErrors(raw) ==
    SelectSeq([i \in 1..Len(ExtraNames) |->
                  [field |-> ExtraNames[i],
                   type  |-> IF ExtraNames[i] \in DOMAIN raw
                             THEN "extra_forbidden" ELSE "ok"]],
              IsError)

(* The value of a field after validation (float fields rounded by their    *)
(* field_validator). Only used on a raw request with no field error.       *)
Coerced(f, raw) ==
    IF f \in FloatFields THEN Round1(raw[f].n)
    ELSE raw[f].n

(* The 24-hour limit of validate_lifestyle_consistency, in hundredths.     *)
DayLimit == 2400

(* @model_validator(mode='after') validate_lifestyle_consistency: applied  *)
(* to the validated (rounded) fields.                                      *)
LifestyleErrorNoCheck(raw) == << >>

LifestyleError(raw) ==
    LET total_structured_time == Coerced("work_hours", raw)
                                 + Coerced("sleep_duration", raw)
                                 + Coerced("travel_time", raw)
    IN  IF total_structured_time > DayLimit
        THEN << [field |-> "", type |-> "value_error"] >>
        ELSE << >>

(* The error list of one validation pass. pydantic collects the errors of  *)
(* all fields (it does not stop at the first); the mode='after' model      *)
(* validator runs only when the fields produced no error.                  *)
ValidationErrorsFirstOnly(raw) ==
    LET fe == FieldErrors(raw) \o ExtraErrors(raw)
    IN  IF fe # << >> THEN << Head(fe) >> ELSE LifestyleError(raw)

ValidationErrors(raw) ==
    LET fe == FieldErrors(raw) \o ExtraErrors(raw)
    IN  IF fe # << >> THEN fe ELSE LifestyleError(raw)

(* to_model_format of the validated request.                               *)
to_model_format(raw) ==
    [ Age                 |-> Coerced("age", raw),
      Gender              |-> raw["gender"].s,
      Sleep_Duration      |-> Coerced("sleep_duration", raw),
      Sleep_Quality       |-> Coerced("sleep_quality", raw),
      Physical_Activity   |-> Coerced("physical_activity", raw),
      Screen_Time         |-> Coerced("screen_time", raw),
      Caffeine_Intake     |-> Coerced("caffeine_intake", raw),
      Smoking_Habit       |-> raw["smoking_habit"].s,
      Work_Hours          |-> Coerced("work_hours", raw),
      Travel_Time         |-> Coerced("travel_time", raw),
      Social_Interactions |-> Coerced("social_interactions", raw),
      Meditation_Practice |-> raw["meditation_practice"].s,
      Exercise_Type       |-> raw["exercise_type"].s ]

-----------------------------------------------------------------------------
(* Request bodies.                                                         *)

(* The example body of schemas.py (json_schema_extra).                     *)
ExampleBody ==
    [f \in FieldSet |->
        CASE f = "age" -> Num(30)
          [] f = "gender" -> Str("Male")
          [] f = "sleep_duration" -> Num(750)
          [] f = "sleep_quality" -> Num(4)
          [] f = "physical_activity" -> Num(3)
          [] f = "screen_time" -> Num(800)
          [] f = "caffeine_intake" -> Num(2)
          [] f = "smoking_habit" -> Str("No")
          [] f = "work_hours" -> Num(800)
          [] f = "travel_time" -> Num(100)
          [] f = "social_interactions" -> Num(3)
          [] f = "meditation_practice" -> Str("Yes")
          [] f = "exercise_type" -> Str("Cardio")]

(* The high-stress body of test_api_high_stress.py.                        *)
HighStressBody ==
    [f \in FieldSet |->
        CASE f = "age" -> Num(45)
          [] f = "gender" -> Str("Male")
          [] f = "sleep_duration" -> Num(400)
          [] f = "sleep_quality" -> Num(2)
          [] f = "physical_activity" -> Num(0)
          [] f = "screen_time" -> Num(1200)
          [] f = "caffeine_intake" -> Num(6)
          [] f = "smoking_habit" -> Str("Yes")
          [] f = "work_hours" -> Num(1400)
          [] f = "travel_time" -> Num(300)
          [] f = "social_interactions" -> Num(1)
          [] f = "meditation_practice" -> Str("No")
          [] f = "exercise_type" -> Str("Walking")]

(* A body: the given choice for each name, a name being left out of the    *)
(* body when its choice is Absent.                                         *)
Body(ch) == [f \in {g \in DOMAIN ch : ch[g].k # "absent"} |-> ch[f]]

WithChoices(age, gender, activity, sleep, work, travel, bmi, uid) ==
    Body([f \in AllNames |->
            CASE f = "age" -> age
              [] f = "gender" -> gender
              [] f = "physical_activity" -> activity
              [] f = "sleep_duration" -> sleep
              [] f = "work_hours" -> work
              [] f = "travel_time" -> travel
              [] f = "bmi" -> bmi
              [] f = "user_id" -> uid
              [] OTHER -> ExampleBody[f]])

(* The bodies the validator is applied to in SpecV.                        *)
RawInputs ==
    { WithChoices(age, gender, activity, sleep, work, travel, bmi, uid) :
        age \in {Absent, Num(17), Num(18), Num(65)},
        gender \in {Absent, Str("Male"), Str("Other")},
        activity \in {Absent, Num(3), Str("abc")},
        sleep \in {Num(396), Num(800), Num(1198)},
        work \in {Absent, Num(800), Num(1204), Num(1600), Num(2000)},
        travel \in {Num(0), Num(4), Num(400)},
        bmi \in {Absent, Num(22)},
        uid \in {Absent, Str("u1")} }

(* The outcome of validating a body.                                       *)
NoRequest ==
    [ Age |-> 0, Gender |-> "", Sleep_Duration |-> 0, Sleep_Quality |-> 0,
      Physical_Activity |-> 0, Screen_Time |-> 0, Caffeine_Intake |-> 0,
      Smoking_Habit |-> "", Work_Hours |-> 0, Travel_Time |-> 0,
      Social_Interactions |-> 0, Meditation_Practice |-> "", Exercise_Type |-> "" ]

NotValidated == [done |-> FALSE, accepted |-> FALSE, errors |-> << >>, value |-> NoRequest]

Validate(raw) ==
    LET errs == ValidationErrors(raw)
    IN  [ done     |-> TRUE,
          accepted |-> errs = << >>,
          errors   |-> errs,
          value    |-> IF errs = << >> THEN to_model_format(raw) ELSE NoRequest ]

-----------------------------------------------------------------------------
(* Model artifacts and the files that hold them (the environment).         *)

(* ModelService.expected_features / the training feature columns.          *)
ExpectedFeatures ==
    << "Age", "Gender", "Sleep_Duration", "Sleep_Quality", "Physical_Activity",
       "Screen_Time", "Caffeine_Intake", "Smoking_Habit", "Work_Hours",
       "Travel_Time", "Social_Interactions", "Meditation_Practice",
       "Exercise_Type" >>

RequiredKeys == << "model", "feature_names", "model_name", "model_score" >>
RequiredKeySet == {RequiredKeys[i] : i \in 1..Len(RequiredKeys)}

NoModel == [has_predict |-> FALSE, has_proba |-> FALSE]

(* A pickled bundle: the keys it carries and their values.                 *)
ArtForest ==
    [ keys          |-> RequiredKeySet,
      model         |-> [has_predict |-> TRUE, has_proba |-> TRUE],
      feature_names |-> ExpectedFeatures,
      model_name    |-> "RandomForestClassifier",
      model_score   |-> 92 ]

(* A classifier with no predict_proba, trained on the columns in another   *)
(* order.                                                                  *)
ArtNoProba ==
    [ keys          |-> RequiredKeySet,
      model         |-> [has_predict |-> TRUE, has_proba |-> FALSE],
      feature_names |-> << "Exercise_Type", "Age", "Gender", "Work_Hours",
                           "Sleep_Duration", "Sleep_Quality", "Physical_Activity",
                           "Screen_Time", "Caffeine_Intake", "Smoking_Habit",
                           "Travel_Time", "Social_Interactions",
                           "Meditation_Practice" >>,
      model_name    |-> "LinearSVC",
      model_score   |-> 88 ]

(* A bundle trained on a feature the request schema does not have.         *)
ArtMismatch ==
    [ keys          |-> RequiredKeySet,
      model         |-> [has_predict |-> TRUE, has_proba |-> TRUE],
      feature_names |-> ExpectedFeatures \o << "BMI" >>,
      model_name    |-> "GaussianNB",
      model_score   |-> 81 ]

(* A bundle saved without its score.                                       *)
ArtNoScore ==
    [ keys          |-> RequiredKeySet \ {"model_score"},
      model         |-> [has_predict |-> TRUE, has_proba |-> TRUE],
      feature_names |-> ExpectedFeatures,
      model_name    |-> "KNeighborsClassifier",
      model_score   |-> 0 ]

(* A bundle whose "model" is an object without a predict method.           *)
ArtNoPredict ==
    [ keys          |-> RequiredKeySet,
      model         |-> [has_predict |-> FALSE, has_proba |-> FALSE],
      feature_names |-> ExpectedFeatures,
      model_name    |-> "StandardScaler",
      model_score   |-> 50 ]

NoArtifact ==
    [ keys |-> {}, model |-> NoModel, feature_names |-> << >>,
      model_name |-> "", model_score |-> 0 ]

FileAbsent  == [exists |-> FALSE, size |-> 0, unpickles |-> FALSE, artifact |-> NoArtifact]
FileEmpty   == [exists |-> TRUE,  size |-> 0, unpickles |-> FALSE, artifact |-> NoArtifact]
FileCorrupt == [exists |-> TRUE,  size |-> 1, unpickles |-> FALSE, artifact |-> NoArtifact]
FileOf(art) == [exists |-> TRUE,  size |-> 1, unpickles |-> TRUE,  artifact |-> art]

(* The deployments the service is started in: what the test file and the   *)
(* production file hold.                                                   *)
Env(t, p) == [test |-> t, prod |-> p]

Environments ==
    { Env(FileAbsent, FileAbsent),
      Env(FileOf(ArtForest), FileOf(ArtNoProba)),
      Env(FileEmpty, FileOf(ArtNoProba)),
      Env(FileCorrupt, FileAbsent),
      Env(FileAbsent, FileCorrupt),
      Env(FileOf(ArtNoScore), FileOf(ArtForest)),
      Env(FileOf(ArtNoScore), FileEmpty),
      Env(FileOf(ArtMismatch), FileOf(ArtForest)),
      Env(FileOf(ArtNoPredict), FileOf(ArtForest)) }

TestPath == "models/pulse_ai_model_test.pkl"
ProductionPath == "models/pulse_ai_model.pkl"

FileAt(path) == IF path = TestPath THEN fs.test ELSE fs.prod

-----------------------------------------------------------------------------
(* class ModelService (app.py).                                            *)

NoneService ==
    [ is_none |-> TRUE, model_path |-> "", model |-> NoModel,
      feature_names |-> << >>, model_name |-> "", model_score |-> 0,
      is_loaded |-> FALSE ]

(* ModelService.__init__                                                   *)
NewModelService(path) ==
    [ is_none |-> FALSE, model_path |-> path, model |-> NoModel,
      feature_names |-> << >>, model_name |-> "", model_score |-> 0,
      is_loaded |-> FALSE ]

(* ModelService.load_model on the file f: the return value and the object  *)
(* afterwards. The four keys are read in order, so a missing key leaves    *)
(* the fields before it assigned and is_loaded False.                      *)
load_model(svc, f) ==
    IF ~f.exists \/ ~f.unpickles THEN [ret |-> FALSE, svc |-> svc]
    ELSE
      LET a  == f.artifact
          s1 == IF "model" \in a.keys THEN [svc EXCEPT !.model = a.model] ELSE svc
          k1 == "model" \in a.keys
          s2 == IF k1 /\ "feature_names" \in a.keys
                THEN [s1 EXCEPT !.feature_names = a.feature_names] ELSE s1
          k2 == k1 /\ "feature_names" \in a.keys
          s3 == IF k2 /\ "model_name" \in a.keys
                THEN [s2 EXCEPT !.model_name = a.model_name] ELSE s2
          k3 == k2 /\ "model_name" \in a.keys
          s4 == IF k3 /\ "model_score" \in a.keys
                THEN [s3 EXCEPT !.model_score = a.model_score] ELSE s3
          k4 == k3 /\ "model_score" \in a.keys
      IN  IF k4 THEN [ret |-> TRUE, svc |-> [s4 EXCEPT !.is_loaded = TRUE]]
          ELSE [ret |-> FALSE, svc |-> s4]

(* ModelService.categorical_mappings: -1 stands for "no entry".           *)
CategoricalFeatures == {"Gender", "Smoking_Habit", "Meditation_Practice", "Exercise_Type"}

CategoricalCode(feature, value) ==
    CASE feature = "Gender" ->
            (CASE value = "Male" -> 0 [] value = "Female" -> 1 [] OTHER -> -1)
      [] feature = "Smoking_Habit" ->
            (CASE value = "No" -> 0 [] value = "Yes" -> 1 [] OTHER -> -1)
      [] feature = "Meditation_Practice" ->
            (CASE value = "No" -> 0 [] value = "Yes" -> 1 [] OTHER -> -1)
      [] feature = "Exercise_Type" ->
            (CASE value = "Cardio" -> 0 [] value = "Yoga" -> 1
               [] value = "Strength Training" -> 2 [] value = "Aerobics" -> 3
               [] value = "Walking" -> 4 [] value = "Pilates" -> 5 [] OTHER -> -1)

(* The encoding of one feature of the input: ok = FALSE when the feature   *)
(* is not in the input or its categorical value has no entry.              *)
EncodeFeatureOneBased(feature, input_data) ==
    IF feature \notin DOMAIN input_data THEN [ok |-> FALSE, value |-> 0]
    ELSE IF feature \in CategoricalFeatures
         THEN LET c == CategoricalCode(feature, input_data[feature])
              IN  [ok |-> c >= 0, value |-> c + 1]
         ELSE [ok |-> TRUE, value |-> input_data[feature]]

EncodeFeature(feature, input_data) ==
    IF feature \notin DOMAIN input_data THEN [ok |-> FALSE, value |-> 0]
    ELSE IF feature \in CategoricalFeatures
         THEN LET c == CategoricalCode(feature, input_data[feature])
              IN  [ok |-> c >= 0, value |-> c]
         ELSE [ok |-> TRUE, value |-> input_data[feature]]

(* ModelService.preprocess_input: the feature vector in the artifact's     *)
(* order, or is_none = TRUE (None) at the first feature that fails.        *)
preprocess_input_skipping(feature_names, input_data) ==
    LET enc == [i \in 1..Len(feature_names) |-> EncodeFeature(feature_names[i], input_data)]
        Good(e) == e.ok
        kept == SelectSeq(enc, Good)
    IN  [is_none |-> FALSE, features |-> [i \in 1..Len(kept) |-> kept[i].value]]

preprocess_input(feature_names, input_data) ==
    LET enc == [i \in 1..Len(feature_names) |-> EncodeFeature(feature_names[i], input_data)]
    IN  IF \E i \in 1..Len(enc) : ~enc[i].ok
        THEN [is_none |-> TRUE, features |-> << >>]
        ELSE [is_none |-> FALSE, features |-> [i \in 1..Len(enc) |-> enc[i].value]]


(* What the classifier does on one invocation (the environment): predict   *)
(* raises pred_raises or returns pred; predict_proba raises proba_raises   *)
(* or returns a distribution whose maximum is proba (in hundredths).       *)
Outcome(pr, p, qr, q) == [pred_raises |-> pr, pred |-> p, proba_raises |-> qr, proba |-> q]

(* The prediction is the value predict returns for the row: a string      *)
(* label or an integer class code.                                         *)
NoPrediction == Str("")

ClassifierOutcomes ==
    { Outcome("", Str("Low"), "", 90), Outcome("", Str("Medium"), "", 90),
      Outcome("", Str("High"), "", 100), Outcome("", Str("High"), "", 150),
      Outcome("", Str("low"), "", 90), Outcome("", Num(1), "", 90),
      Outcome("ValueError", NoPrediction, "", 0),
      Outcome("MemoryError", NoPrediction, "", 0),
      Outcome("RuntimeError", NoPrediction, "", 0),
      Outcome("", Str("Medium"), "ValueError", 0) }

(* str(prediction)                                                         *)
StrOf(v) ==
    IF v.k = "num"
    THEN (CASE v.n = 0 -> "0" [] v.n = 1 -> "1" [] v.n = 2 -> "2" [] OTHER -> "3")
    ELSE v.s

(* str.lower() on the labels a classifier of this model returns.           *)
Lower(label) ==
    CASE label = "Low" -> "low"
      [] label = "Medium" -> "medium"
      [] label = "High" -> "high"
      [] OTHER -> label

(* ModelService._generate_insights (app.py)                                *)
_generate_insights(input_data, stress_level) ==
    LET a == IF input_data.Sleep_Duration < 600
             THEN << "Your sleep duration is below the recommended 7-9 hours" >> ELSE << >>
        b == IF input_data.Work_Hours > 1000
             THEN << "Long work hours may be a significant stress factor" >> ELSE << >>
        c == IF input_data.Physical_Activity < 1
             THEN << "Increasing physical activity could help reduce stress" >> ELSE << >>
        insights == a \o b \o c
    IN  IF insights = << >>
        THEN << "Your current stress level is " \o Lower(stress_level) >>
        ELSE insights

(* ModelService._generate_recommendations (app.py)                         *)
_generate_recommendations(stress_level) ==
    CASE stress_level = "Low" ->
            << "Maintain your current healthy lifestyle habits",
               "Continue regular physical activity and good sleep schedule" >>
      [] stress_level = "Medium" ->
            << "Focus on improving sleep quality and duration",
               "Incorporate regular physical exercise into your routine",
               "Practice stress-reduction techniques like deep breathing" >>
      [] stress_level = "High" ->
            << "Prioritize getting adequate sleep (7-9 hours per night)",
               "Engage in regular physical activity to reduce stress hormones",
               "Practice meditation or mindfulness exercises daily",
               "Consider speaking with a healthcare professional" >>
      [] OTHER -> << "Focus on maintaining a balanced lifestyle" >>

(* The numerical score of a label.                                         *)
NumericalScoreThirds(stress_level) ==
    CASE stress_level = "Low" -> 17
      [] stress_level = "Medium" -> 50
      [] stress_level = "High" -> 83
      [] OTHER -> 50

(* The numerical score of a label.                                         *)
NumericalScore(stress_level) ==
    CASE stress_level = "Low" -> 25
      [] stress_level = "Medium" -> 50
      [] stress_level = "High" -> 75
      [] OTHER -> 50

(* The confidence used when the classifier has no predict_proba (0.8).     *)
DefaultConfidence == 80

NoResult ==
    [ level |-> "", score |-> 0, confidence |-> 0, insights |-> << >>,
      recommendations |-> << >>, model_name |-> "", model_score |-> 0 ]

(* A None result; clf_raised records that it stands for an exception of    *)
(* the classifier (predict or predict_proba).                              *)
PredictNone(enc, clf, pp, clf_raised) ==
    [ raised |-> "", is_none |-> TRUE, result |-> NoResult,
      enc_calls |-> enc, clf_calls |-> clf, proba_calls |-> pp,
      clf_raised |-> clf_raised,
      features |-> << >>, prediction |-> NoPrediction ]

PredictRaised(exc, enc, clf, pp) ==
    [ raised |-> exc, is_none |-> FALSE, result |-> NoResult,
      enc_calls |-> enc, clf_calls |-> clf, proba_calls |-> pp,
      clf_raised |-> clf > 0,
      features |-> << >>, prediction |-> NoPrediction ]

(* The body of ModelService.predict inside its try block: what it returns  *)
(* or the exception it raises, with the number of encoder, predict and     *)
(* predict_proba invocations made, the feature vector handed to the        *)
(* classifier (processed_features) and the value predict returned          *)
(* (prediction).                                                           *)
predict_body(svc, input_data, o) ==
    IF ~svc.is_loaded THEN PredictNone(0, 0, 0, FALSE)
    ELSE
      LET processed_features == preprocess_input(svc.feature_names, input_data)
      IN  IF processed_features.is_none THEN PredictNone(1, 0, 0, FALSE)
          ELSE IF ~svc.model.has_predict
               THEN [PredictRaised("AttributeError", 1, 0, 0)
                       EXCEPT !.features = processed_features.features]
          ELSE IF o.pred_raises # ""
               THEN [PredictRaised(o.pred_raises, 1, 1, 0)
                       EXCEPT !.features = processed_features.features]
          ELSE IF svc.model.has_proba /\ o.proba_raises # ""
               THEN [PredictRaised(o.proba_raises, 1, 1, 1)
                       EXCEPT !.features = processed_features.features,
                              !.prediction = o.pred]
          ELSE
            LET confidence_score == IF svc.model.has_proba THEN o.proba
                                    ELSE DefaultConfidence
                stress_level == StrOf(o.pred)
            IN  [ raised  |-> "",
                  is_none |-> FALSE,
                  result  |->
                    [ level           |-> stress_level,
                      score           |-> NumericalScore(stress_level),
                      confidence      |-> confidence_score,
                      insights        |-> _generate_insights(input_data, stress_level),
                      recommendations |-> _generate_recommendations(stress_level),
                      model_name      |-> svc.model_name,
                      model_score     |-> svc.model_score ],
                  enc_calls   |-> 1,
                  clf_calls   |-> 1,
                  proba_calls |-> IF svc.model.has_proba THEN 1 ELSE 0,
                  clf_raised  |-> FALSE,
                  features    |-> processed_features.features,
                  prediction  |-> o.pred ]

(* ModelService.predict: "except Exception" turns every exception of the   *)
(* body into a None result.                                                *)
predict_propagating(svc, input_data, o) == predict_body(svc, input_data, o)

predict(svc, input_data, o) ==
    LET b == predict_body(svc, input_data, o)
    IN  IF b.raised # ""
        THEN [PredictNone(b.enc_calls, b.clf_calls, b.proba_calls, b.clf_raised)
                EXCEPT !.features = b.features, !.prediction = b.prediction]
        ELSE b

-----------------------------------------------------------------------------
(* Responses (schemas.py) and the wellness plan (app.py).                  *)

Task(id, title, type, link, reward) ==
    [id |-> id, title |-> title, type |-> type, link |-> link, reward |-> reward]

(* _create_wellness_plan                                                   *)
_create_wellness_plan(stress_level) ==
    CASE stress_level = "Low" ->
            [ title   |-> "Maintenance Wellness Plan",
              summary |-> "Keep up your great habits with these maintenance activities",
              tasks   |-> << Task("maintain-1", "Continue Regular Exercise", "lifestyle", "/wellness/exercise", 10),
                             Task("maintain-2", "Maintain Sleep Schedule", "lifestyle", "/wellness/sleep", 10) >> ]
      [] stress_level = "Medium" ->
            [ title   |-> "Balanced Stress Management Plan",
              summary |-> "Targeted activities to help reduce your moderate stress levels",
              tasks   |-> << Task("medium-1", "Daily Meditation Practice", "tool", "/tools/meditation", 15),
                             Task("medium-2", "Improve Sleep Hygiene", "article", "/articles/sleep-hygiene", 10),
                             Task("medium-3", "30-Minute Daily Walk", "lifestyle", "/wellness/walking", 15) >> ]
      [] OTHER ->
            [ title   |-> "Intensive Stress Relief Plan",
              summary |-> "Comprehensive plan to help manage your high stress levels",
              tasks   |-> << Task("high-1", "Deep Breathing Exercises", "tool", "/tools/breathing", 20),
                             Task("high-2", "Professional Stress Management", "article", "/articles/professional-help", 15),
                             Task("high-3", "Sleep Optimization Program", "lifestyle", "/wellness/sleep-program", 20),
                             Task("high-4", "Regular Exercise Routine", "lifestyle", "/wellness/exercise-routine", 20) >> ]

(* StressPredictionResponse(...) built from a prediction result and plan.  *)
MakeResponse(result, plan) ==
    [ level           |-> result.level,
      score           |-> result.score,
      confidence      |-> result.confidence,
      insights        |-> result.insights,
      recommendations |-> result.recommendations,
      wellness_plan   |-> plan,
      model_name      |-> result.model_name,
      model_score     |-> result.model_score ]

(* The constraints of StressPredictionResponse: constructing a response    *)
(* that breaks one raises a validation error.                              *)
ResponseValidUnchecked(result) == TRUE

ResponseValid(result) ==
    /\ result.level \in StressLevelEnum
    /\ result.score >= 0 /\ result.score <= 100
    /\ result.confidence >= 0 /\ result.confidence <= 100

(* _create_fallback_response (model_score None is held as -1).             *)
FallbackResponse ==
    [ level           |-> "Medium",
      score           |-> 50,
      confidence      |-> 50,
      insights        |-> << "We're experiencing technical difficulties with our analysis",
                             "Please try again in a few minutes for a personalized assessment" >>,
      recommendations |-> << "Focus on basic wellness practices",
                             "Maintain regular sleep and exercise routines",
                             "Practice stress-reduction techniques" >>,
      wellness_plan   |->
        [ title   |-> "Basic Wellness Plan",
          summary |-> "General wellness recommendations while we resolve technical issues",
          tasks   |-> << Task("fallback-1", "Practice Deep Breathing", "tool", "/tools/breathing", 10),
                         Task("fallback-2", "Take a Short Walk", "lifestyle", "/wellness/walking", 10),
                         Task("fallback-3", "Stay Hydrated", "lifestyle", "/wellness/hydration", 5) >> ],
      model_name      |-> "Fallback Response",
      model_score     |-> -1 ]

(* The body of a reply that is not a prediction response (an error).       *)
NoResponse ==
    [ level |-> "", score |-> 0, confidence |-> 0, insights |-> << >>,
      recommendations |-> << >>,
      wellness_plan |-> [title |-> "", summary |-> "", tasks |-> << >>],
      model_name |-> "", model_score |-> -1 ]

-----------------------------------------------------------------------------
(* The prediction cache (app.py).                                          *)

(* cache_ttl = timedelta(minutes=5)                                        *)
cache_ttl == 5

(* The dict literal of to_model_format lists its keys in this order.       *)
ModelFormatOrder ==
    << "Age", "Gender", "Sleep_Duration", "Sleep_Quality", "Physical_Activity",
       "Screen_Time", "Caffeine_Intake", "Smoking_Habit", "Work_Hours",
       "Travel_Time", "Social_Interactions", "Meditation_Practice",
       "Exercise_Type" >>

(* A Python dict: its <<key, value>> items in insertion order, for the     *)
(* mapping d with its keys inserted in the given order.                    *)
Items(order, d) == [i \in 1..Len(order) |-> << order[i], d[order[i]] >>]

(* The keys of a model input (every dict given to _generate_cache_key has  *)
(* exactly these 13) in the order of Python's string comparison.           *)
SortedKeyOrder ==
    << "Age", "Caffeine_Intake", "Exercise_Type", "Gender", "Meditation_Practice",
       "Physical_Activity", "Screen_Time", "Sleep_Duration", "Sleep_Quality",
       "Smoking_Habit", "Social_Interactions", "Travel_Time", "Work_Hours" >>

(* json.dumps(request_data, sort_keys=True): the items serialised in the   *)
(* order of their keys.                                                    *)
json_dumps_unsorted(items) == items

json_dumps(items) ==
    [r \in 1..Len(items) |->
        items[CHOOSE j \in 1..Len(items) : items[j][1] = SortedKeyOrder[r]]]

(* _generate_cache_key: the md5 digest of the serialised dict, held as the *)
(* serialised text itself (two inputs have one digest exactly when their   *)
(* texts agree; digest collisions are left out).                           *)
_generate_cache_key(request_data) == json_dumps(request_data)

NoKey == << >>

(* _is_cache_valid                                                         *)
_is_cache_valid_inclusive(timestamp) == now - timestamp <= cache_ttl

_is_cache_valid(timestamp) == now - timestamp < cache_ttl

(* prediction_cache = {}                                               *)
EmptyCache == [k \in {} |-> [response |-> NoResponse, timestamp |-> 0]]

(* del prediction_cache[key]                                               *)
CacheDel(cache, keys) == [k \in DOMAIN cache \ keys |-> cache[k]]

(* prediction_cache[key] = entry                                           *)
CachePut(cache, key, entry) ==
    [k \in DOMAIN cache \cup {key} |-> IF k = key THEN entry ELSE cache[k]]

(* The write path of predict_stress: store the response with the current   *)
(* time, then delete every entry older than the TTL.                       *)
CacheStoreKeepingNewest(cache, key, response) ==
    CachePut(EmptyCache, key, [response |-> response, timestamp |-> now])

CacheStore(cache, key, response) ==
    LET stored == CachePut(cache, key, [response |-> response, timestamp |-> now])
        expired_keys == {k \in DOMAIN stored : now - stored[k].timestamp > cache_ttl}
    IN  CacheDel(stored, expired_keys)

-----------------------------------------------------------------------------
(* predict_stress (app.py).                                                *)

(* "if not model_loaded or model_service is None" sends the request to the *)
(* fallback; ModelAvailable is its negation.                               *)
ModelAvailableUnchecked == TRUE

ModelAvailable == model_loaded /\ ~model_service.is_none

(* prediction_result = model_service.predict(model_input): one call.       *)
InvokeModelServiceRetrying(svc, input_data, o) ==
    LET first == predict(svc, input_data, o)
        again == predict(svc, input_data, o)
    IN  IF first.is_none
        THEN [again EXCEPT !.enc_calls = first.enc_calls + again.enc_calls,
                           !.clf_calls = first.clf_calls + again.clf_calls,
                           !.proba_calls = first.proba_calls + again.proba_calls,
                           !.clf_raised = first.clf_raised \/ again.clf_raised]
        ELSE first

InvokeModelService(svc, input_data, o) == predict(svc, input_data, o)

(* A reply of the handler with what it did on the way: the invocations of  *)
(* the encoder and the classifier, whether the cache was looked up, whether *)
(* an expired entry was deleted, whether the response was stored; with the *)
(* vector given to the classifier, the value it returned and the           *)
(* confidence_score computed from it.                                      *)
Reply(status, path, response, pr, read, evicted, write, cache) ==
    [ status |-> status, path |-> path, response |-> response,
      enc_calls |-> pr.enc_calls, clf_calls |-> pr.clf_calls,
      proba_calls |-> pr.proba_calls, clf_raised |-> pr.clf_raised,
      features |-> pr.features, prediction |-> pr.prediction,
      confidence |-> pr.result.confidence,
      cache_read |-> read, cache_evicted |-> evicted, cache_write |-> write,
      cache |-> cache ]

NotInvoked == PredictNone(0, 0, 0, FALSE)

(* The handler on a validated request, with the classifier behaving as o:  *)
(* the reply, what was invoked, and prediction_cache afterwards.           *)
predict_stress(model_input, o) ==
    IF ~ModelAvailable
    THEN Reply(200, "fallback_unavailable", FallbackResponse, NotInvoked,
               FALSE, FALSE, FALSE, prediction_cache)
    ELSE
      LET cache_key == _generate_cache_key(Items(ModelFormatOrder, model_input))
          present   == cache_key \in DOMAIN prediction_cache
      IN  IF present /\ _is_cache_valid(prediction_cache[cache_key].timestamp)
          THEN Reply(200, "cache_hit", prediction_cache[cache_key].response,
                     NotInvoked, TRUE, FALSE, FALSE, prediction_cache)
          ELSE
            LET cache1 == IF present THEN CacheDel(prediction_cache, {cache_key})
                          ELSE prediction_cache
                removed_expired == present
                pr == InvokeModelService(model_service, model_input, o)
            IN  CASE pr.raised = "ValueError" ->
                       Reply(400, "model_validation_error", NoResponse, pr, TRUE, removed_expired, FALSE, cache1)
                  [] pr.raised = "FileNotFoundError" ->
                       Reply(200, "fallback_file_not_found", FallbackResponse, pr, TRUE, removed_expired, FALSE, cache1)
                  [] pr.raised = "MemoryError" ->
                       Reply(503, "service_unavailable", NoResponse, pr, TRUE, removed_expired, FALSE, cache1)
                  [] pr.raised \notin {"", "ValueError", "FileNotFoundError", "MemoryError"} ->
                       Reply(200, "fallback_model_error", FallbackResponse, pr, TRUE, removed_expired, FALSE, cache1)
                  [] pr.raised = "" /\ pr.is_none ->
                       Reply(200, "fallback_none", FallbackResponse, pr, TRUE, removed_expired, FALSE, cache1)
                  [] OTHER ->
                       LET wellness_plan == _create_wellness_plan(pr.result.level)
                           response == MakeResponse(pr.result, wellness_plan)
                       IN  IF ~ResponseValid(pr.result)
                           THEN Reply(200, "fallback_format", FallbackResponse, pr,
                                      TRUE, removed_expired, FALSE, cache1)
                           ELSE Reply(200, "fresh", response, pr, TRUE, removed_expired, TRUE,
                                      CacheStore(cache1, cache_key, response))

-----------------------------------------------------------------------------
(* The record of an endpoint call.                                         *)

(* No model input: every feature 0.                                        *)
NoInput == [f \in {ExpectedFeatures[i] : i \in 1..Len(ExpectedFeatures)} |-> 0]

NoCall ==
    [ op |-> "none", status |-> 0, path |-> "", key |-> NoKey, input |-> NoInput,
      response |-> NoResponse, errors |-> << >>,
      enc_calls |-> 0, clf_calls |-> 0, proba_calls |-> 0, clf_raised |-> FALSE,
      features |-> << >>, prediction |-> NoPrediction, confidence |-> 0,
      cache_read |-> FALSE, cache_evicted |-> FALSE, cache_write |-> FALSE ]

(* A request that fails validation: HTTP 422 with the error list.          *)
ValidationReply(errs) ==
    [ NoCall EXCEPT !.op = "predict", !.status = 422,
                    !.path = "validation_error", !.errors = errs ]

PredictReply(key, r) ==
    [ op |-> "predict", status |-> r.status, path |-> r.path, key |-> key,
      input |-> NoInput, response |-> r.response, errors |-> << >>,
      enc_calls |-> r.enc_calls, clf_calls |-> r.clf_calls,
      proba_calls |-> r.proba_calls, clf_raised |-> r.clf_raised,
      features |-> r.features, prediction |-> r.prediction,
      confidence |-> r.confidence,
      cache_read |-> r.cache_read, cache_evicted |-> r.cache_evicted,
      cache_write |-> r.cache_write ]

(* The request bodies sent to the service in Spec.                         *)
InvalidBody == [ExampleBody EXCEPT !["age"] = Num(17)]
ServerInputs == {ExampleBody, HighStressBody, InvalidBody}

(* The last minute of the modelled clock.                                  *)
MaxTime == 6

-----------------------------------------------------------------------------
(* The service: startup_event, the endpoints and the clock.                *)


ServiceInit(files) ==
    /\ service = NoneService
    /\ service_ret = NoCall
    /\ phase = "uninit"
    /\ fs = files
    /\ model_files = << >>
    /\ model_loaded = FALSE
    /\ model_service = NoneService
    /\ model_path = TestPath
    /\ prediction_cache = EmptyCache
    /\ now = 0
    /\ last = NoCall

Init ==
    /\ raw_input = ExampleBody
    /\ validation = NotValidated
    /\ \E e \in Environments : ServiceInit(e)

(* startup_event, "model_files": the candidate paths that exist, the test  *)
(* path before the production path.                                        *)
CandidateFilesProductionFirst ==
    (IF fs.prod.exists THEN << ProductionPath >> ELSE << >>)
    \o (IF fs.test.exists THEN << TestPath >> ELSE << >>)

CandidateFiles ==
    (IF fs.test.exists THEN << TestPath >> ELSE << >>)
    \o (IF fs.prod.exists THEN << ProductionPath >> ELSE << >>)

(* @app.on_event("startup"): the handler runs once, before any request.    *)
StartupEnabledAgain == phase \in {"uninit", "running"}

StartupEnabled == phase = "uninit"

(* startup_event, entry: the candidate files that exist, test first.       *)
StartupBegin ==
    /\ UNCHANGED <<service, service_ret>>
    /\ StartupEnabled
    /\ phase' = "loading"
    /\ model_files' = CandidateFiles
    /\ last' = NoCall
    /\ UNCHANGED <<raw_input, validation, fs, model_loaded, model_service,
                   model_path, prediction_cache, now>>

(* startup_event, "if not model_files": early return.                      *)
StartupNoFiles ==
    /\ UNCHANGED <<service, service_ret>>
    /\ phase = "loading"
    /\ ~fs.test.exists /\ ~fs.prod.exists
    /\ model_loaded' = FALSE
    /\ phase' = "running"
    /\ UNCHANGED <<raw_input, validation, fs, model_files, model_service,
                   model_path, prediction_cache, now, last>>

StartupTryNextIgnoringResult ==
    /\ UNCHANGED <<service, service_ret>>
    /\ phase = "loading"
    /\ model_files # << >>
    /\ LET model_file == Head(model_files)
           f == FileAt(model_file)
           loaded == load_model(NewModelService(model_file), f)
       IN  IF f.size = 0
           THEN /\ model_files' = Tail(model_files)
                /\ UNCHANGED <<model_service, model_loaded, model_path>>
           ELSE /\ model_service' = loaded.svc
                /\ model_loaded' = TRUE
                /\ model_path' = model_file
                /\ model_files' = << >>
    /\ UNCHANGED <<raw_input, validation, phase, fs, prediction_cache, now, last>>

(* startup_event, one iteration of "for model_file, model_type in          *)
(* model_files": an empty file is skipped; a successful load ends the loop *)
(* (the remaining candidates are dropped); a failed one resets             *)
(* model_service to None.                                                  *)
StartupTryNext ==
    /\ UNCHANGED <<service, service_ret>>
    /\ phase = "loading"
    /\ model_files # << >>
    /\ LET model_file == Head(model_files)
           f == FileAt(model_file)
           loaded == load_model(NewModelService(model_file), f)
       IN  IF f.size = 0
           THEN /\ model_files' = Tail(model_files)
                /\ UNCHANGED <<model_service, model_loaded, model_path>>
           ELSE IF loaded.ret
           THEN /\ model_service' = loaded.svc
                /\ model_loaded' = TRUE
                /\ model_path' = model_file
                /\ model_files' = << >>
           ELSE /\ model_service' = NoneService
                /\ model_files' = Tail(model_files)
                /\ UNCHANGED <<model_loaded, model_path>>
    /\ UNCHANGED <<raw_input, validation, phase, fs, prediction_cache, now, last>>

(* startup_event, after the loop: the final status check.                  *)
StartupFinish ==
    /\ UNCHANGED <<service, service_ret>>
    /\ phase = "loading"
    /\ model_files = << >>
    /\ fs.test.exists \/ fs.prod.exists
    /\ IF model_loaded /\ ~model_service.is_none
       THEN UNCHANGED <<model_loaded, model_service>>
       ELSE model_loaded' = FALSE /\ model_service' = NoneService
    /\ phase' = "running"
    /\ UNCHANGED <<raw_input, validation, fs, model_files, model_path,
                   prediction_cache, now, last>>

(* What the classifier may do during one call of predict_stress: it is     *)
(* not invoked when no model is available or when the request is answered  *)
(* from the cache, and then there is nothing to choose.                    *)
InvokedOutcomes(key) ==
    IF ModelAvailable
       /\ ~( key \in DOMAIN prediction_cache
             /\ _is_cache_valid(prediction_cache[key].timestamp) )
    THEN ClassifierOutcomes
    ELSE { Outcome("", NoPrediction, "", 0) }

(* POST /predict: the body is validated against StressPredictionRequest    *)
(* (422 with every error when it fails) and predict_stress runs on the     *)
(* validated request. The handler has no await: it runs as one step.       *)
PredictRefreshingHit ==
    /\ UNCHANGED <<service, service_ret>>
    /\ phase = "running"
    /\ \E raw \in ServerInputs :
         LET errs == ValidationErrors(raw)
         IN  IF errs # << >>
             THEN /\ last' = ValidationReply(errs)
                  /\ UNCHANGED prediction_cache
             ELSE \E model_input \in {to_model_format(raw)} :
                  \E key \in {_generate_cache_key(Items(ModelFormatOrder, model_input))} :
                  \E o \in InvokedOutcomes(key) :
                  \E r \in {predict_stress(model_input, o)} :
                    /\ last' = [PredictReply(key, r) EXCEPT !.input = model_input]
                    /\ prediction_cache' =
                          IF r.path = "cache_hit"
                          THEN CachePut(r.cache, key,
                                        [response |-> r.response, timestamp |-> now])
                          ELSE r.cache
    /\ UNCHANGED <<raw_input, validation, phase, fs, model_files, model_loaded,
                   model_service, model_path, now>>

PredictCachingFallback ==
    /\ UNCHANGED <<service, service_ret>>
    /\ phase = "running"
    /\ \E raw \in ServerInputs :
         LET errs == ValidationErrors(raw)
         IN  IF errs # << >>
             THEN /\ last' = ValidationReply(errs)
                  /\ UNCHANGED prediction_cache
             ELSE \E model_input \in {to_model_format(raw)} :
                  \E key \in {_generate_cache_key(Items(ModelFormatOrder, model_input))} :
                  \E o \in InvokedOutcomes(key) :
                  \E r \in {predict_stress(model_input, o)} :
                    /\ last' = [PredictReply(key, r) EXCEPT !.input = model_input]
                    /\ prediction_cache' =
                          IF r.response = FallbackResponse /\ ModelAvailable
                          THEN CacheStore(r.cache, key, r.response)
                          ELSE r.cache
    /\ UNCHANGED <<raw_input, validation, phase, fs, model_files, model_loaded,
                   model_service, model_path, now>>

Predict ==
    /\ UNCHANGED <<service, service_ret>>
    /\ phase = "running"
    /\ \E raw \in ServerInputs :
         LET errs == ValidationErrors(raw)
         IN  IF errs # << >>
             THEN /\ last' = ValidationReply(errs)
                  /\ UNCHANGED prediction_cache
             ELSE \E model_input \in {to_model_format(raw)} :
                  \E key \in {_generate_cache_key(Items(ModelFormatOrder, model_input))} :
                  \E o \in InvokedOutcomes(key) :
                  \E r \in {predict_stress(model_input, o)} :
                    /\ last' = [PredictReply(key, r) EXCEPT !.input = model_input]
                    /\ prediction_cache' = r.cache
    /\ UNCHANGED <<raw_input, validation, phase, fs, model_files, model_loaded,
                   model_service, model_path, now>>

(* GET /health: reads the globals; "degraded" when a warning applies.      *)
HealthCheck ==
    /\ UNCHANGED <<service, service_ret>>
    /\ phase = "running"
    /\ LET model_file_exists == FileAt(model_path).exists
           model_service_status == ~model_service.is_none /\ model_service.is_loaded
       IN  last' = [ NoCall EXCEPT !.op = "health", !.status = 200,
                       !.path = IF model_file_exists /\ model_service_status
                                THEN "healthy" ELSE "degraded" ]
    /\ UNCHANGED <<raw_input, validation, phase, fs, model_files, model_loaded,
                   model_service, model_path, prediction_cache, now>>

(* GET /debug/model: reads model_service.                                  *)
DebugModel ==
    /\ UNCHANGED <<service, service_ret>>
    /\ phase = "running"
    /\ last' = [ NoCall EXCEPT !.op = "debug_model", !.status = 200,
                   !.path = IF model_service.is_none THEN "no_model_service"
                            ELSE IF ~model_service.is_loaded THEN "model_not_loaded"
                            ELSE "model_loaded" ]
    /\ UNCHANGED <<raw_input, validation, phase, fs, model_files, model_loaded,
                   model_service, model_path, prediction_cache, now>>

(* The wall clock advances by a minute between calls.                      *)
Tick ==
    /\ UNCHANGED <<service, service_ret>>
    /\ phase = "running"
    /\ now < MaxTime
    /\ now' = now + 1
    /\ last' = NoCall
    /\ UNCHANGED <<raw_input, validation, phase, fs, model_files, model_loaded,
                   model_service, model_path, prediction_cache>>

Next ==
    \/ StartupBegin
    \/ StartupNoFiles
    \/ StartupTryNext
    \/ StartupFinish
    \/ Predict
    \/ HealthCheck
    \/ DebugModel
    \/ Tick

Spec == Init /\ [][Next]_vars

-----------------------------------------------------------------------------
(* The validator applied to one raw body.                                  *)

InitV ==
    /\ raw_input \in RawInputs
    /\ validation = NotValidated
    /\ ServiceInit([test |-> FileAbsent, prod |-> FileAbsent])

ValidateRequest ==
    /\ UNCHANGED <<service, service_ret>>
    /\ ~validation.done
    /\ validation' = Validate(raw_input)
    /\ UNCHANGED <<raw_input, phase, fs, model_files, model_loaded, model_service,
                   model_path, prediction_cache, now, last>>

NextV == ValidateRequest

SpecV == InitV /\ [][NextV]_vars

-----------------------------------------------------------------------------
(* The facade's state, read off startup_event's position and the globals.  *)

FacadeState ==
    CASE phase = "uninit" -> "Uninitialized"
      [] phase = "loading" -> "Loading"
      [] phase = "running" /\ model_loaded /\ ~model_service.is_none -> "Ready"
      [] OTHER -> "Degraded"

(* The last call was a predict call on a request that passed validation.   *)
ValidPredictCall == last.op = "predict" /\ last.status # 422

(* This step is a predict call on a request that passed validation.        *)
ValidPredictStep ==
    /\ phase = "running" /\ phase' = "running"
    /\ now' = now
    /\ last'.op = "predict" /\ last'.status # 422

(* The response contract of section 8.1.                                   *)
WellFormed(r) ==
    /\ r.level \in {"Low", "Medium", "High"}
    /\ r.score >= 0 /\ r.score <= 100
    /\ r.confidence >= 0 /\ r.confidence <= 100
    /\ Len(r.insights) >= 1 /\ Len(r.insights) <= 5
    /\ Len(r.recommendations) >= 1 /\ Len(r.recommendations) <= 6
    /\ Len(r.wellness_plan.tasks) >= 1 /\ Len(r.wellness_plan.tasks) <= 6

-----------------------------------------------------------------------------
(* C1. Every response predict returns for a valid request - from a fresh   *)
(* inference, from the cache or as the fallback - has a level among Low,   *)
(* Medium, High, a score in 0..100, a confidence in 0..1, 1 to 5 insights, *)
(* 1 to 6 recommendations and 1 to 6 wellness-plan tasks, whatever the     *)
(* classifier returned; the same holds of every response the cache holds.  *)
C1_ResponseWellFormed ==
    /\ ValidPredictCall => last.status = 200 /\ WellFormed(last.response)
    /\ \A k \in DOMAIN prediction_cache : WellFormed(prediction_cache[k].response)

(* A High response with three insights served from the cache.              *)
C1_Witness ==
    /\ last.path = "cache_hit"
    /\ last.response.level = "High"
    /\ Len(last.response.insights) = 3
    /\ last.response.confidence = 100

-----------------------------------------------------------------------------
(* C2, as stated: in the Ready state, when a valid request is issued again *)
(* within the TTL of an earlier call, the second call returns the response *)
(* of the first as a cache hit and invokes neither encoder nor classifier. *)
C2_RepeatAlwaysHits ==
    [][ ( /\ FacadeState = "Ready"
          /\ ValidPredictCall
          /\ ValidPredictStep
          /\ last'.key = last.key )
        => ( /\ last'.response = last.response
             /\ last'.path = "cache_hit"
             /\ last'.enc_calls = 0 /\ last'.clf_calls = 0 ) ]_vars

(* C2, amended: in the Ready state a predict call that performs a fresh    *)
(* inference stores its response with the current time; the entry stays as *)
(* stored while it is younger than the TTL; and a predict call on a        *)
(* request whose entry is younger than the TTL returns exactly the stored  *)
(* response, invokes neither encoder nor classifier and leaves the cache   *)
(* as it is.                                                               *)
C2_CachedRepeat ==
    [][ /\ ( ValidPredictStep /\ last'.path = "fresh" )
           => ( /\ last'.key \in DOMAIN prediction_cache'
                /\ prediction_cache'[last'.key]
                     = [response |-> last'.response, timestamp |-> now] )
        /\ \A k \in DOMAIN prediction_cache :
             ( now' - prediction_cache[k].timestamp < 5 )
             => ( k \in DOMAIN prediction_cache'
                  /\ prediction_cache'[k] = prediction_cache[k] )
        /\ ( /\ FacadeState = "Ready"
             /\ ValidPredictStep
             /\ last'.key \in DOMAIN prediction_cache
             /\ now - prediction_cache[last'.key].timestamp < 5 )
           => ( /\ last'.path = "cache_hit"
                /\ last'.response = prediction_cache[last'.key].response
                /\ last'.enc_calls = 0 /\ last'.clf_calls = 0
                /\ last'.proba_calls = 0
                /\ prediction_cache' = prediction_cache ) ]_vars

(* A hit on an entry stored earlier and still younger than the TTL.        *)
C2_Witness ==
    /\ last.path = "cache_hit"
    /\ last.key \in DOMAIN prediction_cache
    /\ now - prediction_cache[last.key].timestamp = 4
    /\ last.response = prediction_cache[last.key].response

-----------------------------------------------------------------------------
(* C3. An entry whose age has reached the TTL is never returned: a predict *)
(* call on its request deletes it and performs a fresh inference (encoder  *)
(* and classifier are invoked once), and afterwards the key is absent or   *)
(* holds an entry created now.                                             *)
C3_ExpiredNeverReturned ==
    [][ ( /\ FacadeState = "Ready"
          /\ ValidPredictStep
          /\ last'.key \in DOMAIN prediction_cache
          /\ now - prediction_cache[last'.key].timestamp >= 5 )
        => ( /\ last'.path # "cache_hit"
             /\ last'.cache_evicted
             /\ last'.enc_calls = 1 /\ last'.clf_calls = 1
             /\ \/ last'.key \notin DOMAIN prediction_cache'
                \/ prediction_cache'[last'.key].timestamp = now ) ]_vars

(* An expired entry was deleted and replaced by a fresh response.          *)
C3_Witness ==
    /\ last.cache_evicted
    /\ last.path = "fresh"
    /\ prediction_cache[last.key].timestamp = now

-----------------------------------------------------------------------------
(* C4. A predict call answers 200 or 422 and nothing else; 422 exactly     *)
(* when validation found errors; and a 200 carries either the response of  *)
(* an inference (fresh or cached) or the fixed fallback response. No       *)
(* failure of the encoder, the classifier, the plan, the formatting or the *)
(* cache surfaces as another error status.                                 *)
C4_OnlyValidationErrors ==
    last.op = "predict" =>
        /\ last.status \in {200, 422}
        /\ (last.status = 422) = (last.errors # << >>)
        /\ (last.status = 422) = (last.path = "validation_error")
        /\ last.status = 200 =>
             \/ last.response = FallbackResponse
             \/ last.path \in {"fresh", "cache_hit"} /\ WellFormed(last.response)

(* The classifier raised and the caller got the fallback with status 200.  *)
C4_Witness ==
    /\ last.op = "predict"
    /\ last.clf_raised
    /\ last.status = 200
    /\ last.response = FallbackResponse

-----------------------------------------------------------------------------
(* C5. In the Degraded state every predict call on a valid request returns *)
(* the fixed fallback (Medium, 50, 0.5) with status 200, invokes neither   *)
(* the encoder nor the classifier, neither looks up nor writes the cache,  *)
(* and the cache stays empty.                                              *)
C5_DegradedFallback ==
    ( FacadeState = "Degraded" /\ ValidPredictCall ) =>
        /\ last.status = 200
        /\ last.response = FallbackResponse
        /\ last.response.level = "Medium"
        /\ last.response.score = 50
        /\ last.response.confidence = 50
        /\ last.enc_calls = 0 /\ last.clf_calls = 0 /\ last.proba_calls = 0
        /\ ~last.cache_read /\ ~last.cache_write
        /\ prediction_cache = EmptyCache

(* A predict call answered in the Degraded state some minutes after start. *)
C5_Witness ==
    /\ FacadeState = "Degraded"
    /\ ValidPredictCall
    /\ last.path = "fallback_unavailable"
    /\ now >= 1

-----------------------------------------------------------------------------
(* C6. The facade state only moves Uninitialized -> Loading -> Ready or    *)
(* Uninitialized -> Loading -> Degraded; once Ready or Degraded it stays   *)
(* there whatever is called, and the loaded service, the loaded flag and   *)
(* the artifact path never change again.                                   *)
C6_StatePermanent ==
    [][ /\ \/ FacadeState' = FacadeState
           \/ FacadeState = "Uninitialized" /\ FacadeState' = "Loading"
           \/ FacadeState = "Loading" /\ FacadeState' \in {"Ready", "Degraded"}
        /\ FacadeState \in {"Ready", "Degraded"}
             => /\ model_service' = model_service
                /\ model_loaded' = model_loaded
                /\ model_path' = model_path
                /\ model_files' = model_files ]_vars

(* Ready, minutes after startup, after a predict call whose inference      *)
(* failed: the state is still Ready.                                       *)
C6_Witness ==
    /\ FacadeState = "Ready"
    /\ now >= 2
    /\ last.op = "predict"
    /\ last.clf_raised

-----------------------------------------------------------------------------
(* C9. When the loaded artifact declares a feature name the validated      *)
(* request does not carry, encoding fails: predict answers the fallback    *)
(* with status 200 (not a validation error), the classifier is not         *)
(* invoked, and nothing is written to the cache.                           *)
EncodingFails(svc) ==
    \E i \in DOMAIN svc.feature_names :
        svc.feature_names[i] \notin DOMAIN to_model_format(ExampleBody)

C9_EncodingFailureFallsBack ==
    ( FacadeState = "Ready" /\ EncodingFails(model_service) /\ ValidPredictCall ) =>
        /\ last.status = 200
        /\ last.response = FallbackResponse
        /\ last.errors = << >>
        /\ last.enc_calls = 1
        /\ last.clf_calls = 0 /\ last.proba_calls = 0
        /\ ~last.cache_write
        /\ prediction_cache = EmptyCache

(* A predict call served by a service whose artifact names "BMI".          *)
C9_Witness ==
    /\ FacadeState = "Ready"
    /\ EncodingFails(model_service)
    /\ ValidPredictCall
    /\ last.path = "fallback_none"
    /\ last.enc_calls = 1

-----------------------------------------------------------------------------
(* C10. One predict call invokes the encoder, the classifier's predict and *)
(* its probability call at most once each; when the classifier or the      *)
(* probability call raises, the call answers the fallback after that one   *)
(* invocation and stores nothing.                                          *)
C10_NoRetry ==
    last.op = "predict" =>
        /\ last.enc_calls <= 1
        /\ last.clf_calls <= 1
        /\ last.proba_calls <= 1
        /\ last.clf_raised =>
             /\ last.clf_calls = 1
             /\ last.status = 200
             /\ last.response = FallbackResponse
             /\ ~last.cache_write

(* The probability call raised after the one classifier invocation.        *)
C10_Witness ==
    /\ last.op = "predict"
    /\ last.clf_raised
    /\ last.clf_calls = 1
    /\ last.proba_calls = 1
    /\ last.response = FallbackResponse

-----------------------------------------------------------------------------
(* The rules a request body breaks, read off the request schema.           *)

MissingFields(raw) == FieldSet \ DOMAIN raw

UnknownFields(raw) == DOMAIN raw \ FieldSet

InRange(f, v) ==
    IF f \in NumericFields
    THEN v.k = "num" /\ v.n >= FieldGe(f) /\ v.n <= FieldLe(f)
    ELSE v.k = "str" /\ v.s \in EnumOf(f)

BadValueFields(raw) == {f \in DOMAIN raw \cap FieldSet : ~InRange(f, raw[f])}

FieldLevelViolations(raw) ==
    MissingFields(raw) \cup UnknownFields(raw) \cup BadValueFields(raw)

Durations == {"work_hours", "sleep_duration", "travel_time"}

(* The three durations are each present and in range, and together exceed  *)
(* the day.                                                                *)
CrossFieldViolated(raw) ==
    /\ \A f \in Durations : f \in DOMAIN raw /\ InRange(f, raw[f])
    /\ Round1(raw["work_hours"].n) + Round1(raw["sleep_duration"].n)
         + Round1(raw["travel_time"].n) > DayLimit

(* The cross-field violation is reported under the empty location.         *)
AllViolations(raw) ==
    FieldLevelViolations(raw) \cup (IF CrossFieldViolated(raw) THEN {""} ELSE {})

ReportedFields == {validation.errors[i].field : i \in DOMAIN validation.errors}

-----------------------------------------------------------------------------
(* C7, as stated: the validation result lists every violation of the       *)
(* request together - the field-level ones and the cross-field one.        *)
C7_AllViolationsListed ==
    validation.done => ReportedFields = AllViolations(raw_input)

(* C7, amended: the validation result lists every field-level violation of *)
(* the request together, each once (a request missing 3 required fields    *)
(* yields those 3 violations); the cross-field violation is listed exactly *)
(* when the request has no field-level violation.                          *)
C7_FieldViolationsListed ==
    validation.done =>
        /\ FieldLevelViolations(raw_input) # {} =>
             /\ ReportedFields = FieldLevelViolations(raw_input)
             /\ Len(validation.errors) = Cardinality(FieldLevelViolations(raw_input))
        /\ \A f \in MissingFields(raw_input) :
             \E i \in DOMAIN validation.errors :
                 validation.errors[i] = [field |-> f, type |-> "missing"]
        /\ FieldLevelViolations(raw_input) = {} =>
             ReportedFields = (IF CrossFieldViolated(raw_input) THEN {""} ELSE {})

(* Three required fields missing, an unknown field and an out-of-range     *)
(* value in one request: five violations in one result.                    *)
C7_Witness ==
    /\ validation.done
    /\ Cardinality(MissingFields(raw_input)) = 3
    /\ UnknownFields(raw_input) = {"bmi"}
    /\ BadValueFields(raw_input) = {"work_hours"}
    /\ Len(validation.errors) = 5

-----------------------------------------------------------------------------
(* C8. A request the validator accepts has exactly the 13 declared fields, *)
(* every numeric field within its inclusive range, every enum field a      *)
(* declared member, and - on the values the request holds, the durations   *)
(* rounded to one decimal - work_hours + sleep_duration + travel_time at   *)
(* most 24. The body with 16 + 8 + 4 is rejected and the body with         *)
(* 8 + 8 + 4 is accepted.                                                  *)
SumBody(work) ==
    WithChoices(Num(18), Str("Male"), Num(3), Num(800), Num(work), Num(400),
                Absent, Absent)

C8_AcceptedSatisfiesRules ==
    validation.done =>
        /\ validation.accepted =>
             /\ DOMAIN raw_input = FieldSet
             /\ \A f \in FieldSet : InRange(f, raw_input[f])
             /\ validation.value.Work_Hours + validation.value.Sleep_Duration
                  + validation.value.Travel_Time <= DayLimit
             /\ validation.value.Work_Hours = Round1(raw_input["work_hours"].n)
        /\ raw_input = SumBody(1600) => ~validation.accepted
        /\ raw_input = SumBody(800) => validation.accepted
        /\ CrossFieldViolated(raw_input) => ~validation.accepted

(* The 8 + 8 + 4 body was accepted.                                        *)
C8_Witness ==
    /\ validation.done
    /\ validation.accepted
    /\ raw_input = SumBody(800)
    /\ validation.value.Work_Hours + validation.value.Sleep_Duration
         + validation.value.Travel_Time = 2000

-----------------------------------------------------------------------------
(* A candidate file is loadable when it exists, is non-empty and           *)
(* deserializes to a bundle with all four required keys.                   *)
Loadable(f) ==
    /\ f.exists
    /\ f.size > 0
    /\ f.unpickles
    /\ RequiredKeySet \subseteq f.artifact.keys

(* C11. After startup the artifact in use is the test artifact when the    *)
(* test file is loadable, otherwise the production artifact when the       *)
(* production file is loadable; and the facade is Degraded exactly when    *)
(* neither is.                                                             *)
C11_FirstLoadableWins ==
    phase = "running" =>
        /\ Loadable(fs.test) =>
             /\ FacadeState = "Ready"
             /\ model_path = TestPath
             /\ model_service.model_path = TestPath
             /\ model_service.model_name = fs.test.artifact.model_name
             /\ model_service.feature_names = fs.test.artifact.feature_names
        /\ ( ~Loadable(fs.test) /\ Loadable(fs.prod) ) =>
             /\ FacadeState = "Ready"
             /\ model_path = ProductionPath
             /\ model_service.model_path = ProductionPath
             /\ model_service.model_name = fs.prod.artifact.model_name
             /\ model_service.feature_names = fs.prod.artifact.feature_names
        /\ (FacadeState = "Degraded") = ( ~Loadable(fs.test) /\ ~Loadable(fs.prod) )

(* The test file held a bundle without its score, so the production        *)
(* artifact is the one in use.                                             *)
C11_Witness ==
    /\ phase = "running"
    /\ fs.test.exists /\ fs.test.unpickles /\ ~Loadable(fs.test)
    /\ FacadeState = "Ready"
    /\ model_service.model_path = ProductionPath
    /\ model_service.model_name = "RandomForestClassifier"

-----------------------------------------------------------------------------
(* The stand-alone ModelService of services/model_service.py.              *)
(* Its inputs are dictionaries from feature names to raw values.           *)

(* A classifier as this service sees it: the importances are the           *)
(* feature_importances_ attribute in hundredths, << >> when it has none.   *)
SvcModel(has_predict, has_proba, importances) ==
    [ has_predict |-> has_predict, has_proba |-> has_proba,
      importances |-> importances ]

SvcNoModel == SvcModel(FALSE, FALSE, << >>)

(* Bundles: a forest on the 13 features; a classifier without              *)
(* probabilities or importances, its features in another order; a          *)
(* classifier trained on the numeric features only; an object without      *)
(* predict; a bundle saved without its score.                              *)
NumericFeatures ==
    << "Age", "Sleep_Duration", "Sleep_Quality", "Physical_Activity",
       "Screen_Time", "Caffeine_Intake", "Work_Hours", "Travel_Time",
       "Social_Interactions" >>

SvcArtForest ==
    [ keys          |-> RequiredKeySet,
      model         |-> SvcModel(TRUE, TRUE, << 5, 3, 20, 12, 8, 7, 6, 2, 20, 4, 6, 3, 4 >>),
      feature_names |-> ExpectedFeatures,
      model_name    |-> "RandomForestClassifier",
      model_score   |-> 92 ]

SvcArtNoProba ==
    [ keys          |-> RequiredKeySet,
      model         |-> SvcModel(TRUE, FALSE, << >>),
      feature_names |-> << "Exercise_Type", "Gender" >> \o NumericFeatures
                        \o << "Smoking_Habit", "Meditation_Practice" >>,
      model_name    |-> "LinearSVC",
      model_score   |-> 88 ]

SvcArtNumericOnly ==
    [ keys          |-> RequiredKeySet,
      model         |-> SvcModel(TRUE, TRUE, << >>),
      feature_names |-> NumericFeatures,
      model_name    |-> "LogisticRegression",
      model_score   |-> 79 ]

SvcArtNoPredict ==
    [ keys          |-> RequiredKeySet,
      model         |-> SvcModel(FALSE, FALSE, << >>),
      feature_names |-> ExpectedFeatures,
      model_name    |-> "StandardScaler",
      model_score   |-> 50 ]

SvcArtNoScore ==
    [ keys          |-> RequiredKeySet \ {"model_score"},
      model         |-> SvcModel(TRUE, TRUE, << >>),
      feature_names |-> ExpectedFeatures,
      model_name    |-> "KNeighborsClassifier",
      model_score   |-> 0 ]

SvcNoArtifact ==
    [ keys |-> {}, model |-> SvcNoModel, feature_names |-> << >>,
      model_name |-> "", model_score |-> 0 ]

(* The files load_model is pointed at in SpecM.                            *)
ServiceFiles ==
    { FileOf(SvcArtForest), FileOf(SvcArtNoProba), FileOf(SvcArtNumericOnly),
      FileOf(SvcArtNoPredict), FileOf(SvcArtNoScore),
      [exists |-> TRUE, size |-> 0, unpickles |-> FALSE, artifact |-> SvcNoArtifact],
      [exists |-> TRUE, size |-> 1, unpickles |-> FALSE, artifact |-> SvcNoArtifact],
      [exists |-> FALSE, size |-> 0, unpickles |-> FALSE, artifact |-> SvcNoArtifact] }

(* ModelService.__init__                                                   *)
SvcNew ==
    [ model |-> SvcNoModel, feature_names |-> << >>, model_name |-> "",
      model_score |-> 0, is_loaded |-> FALSE ]

(* ModelService.load_model on the file f: the return value and the object  *)
(* afterwards. The required keys are checked before any field is assigned; *)
(* the predict capability is checked after the four fields are assigned.   *)
svc_load_model(obj, f) ==
    IF ~f.exists \/ f.size = 0 \/ ~f.unpickles
    THEN [ret |-> FALSE, obj |-> obj]
    ELSE IF ~(RequiredKeySet \subseteq f.artifact.keys)
    THEN [ret |-> FALSE, obj |-> obj]
    ELSE
      LET assigned == [ obj EXCEPT !.model = f.artifact.model,
                                   !.feature_names = f.artifact.feature_names,
                                   !.model_name = f.artifact.model_name,
                                   !.model_score = f.artifact.model_score ]
      IN  IF ~assigned.model.has_predict
          THEN [ret |-> FALSE, obj |-> assigned]
          ELSE [ret |-> TRUE, obj |-> [assigned EXCEPT !.is_loaded = TRUE]]

(* ModelService._validate_input_ranges: the inclusive range of each        *)
(* validated feature (hours in hundredths).                                *)
RangeLo(feature) ==
    CASE feature = "Age" -> 18
      [] feature = "Sleep_Duration" -> 400
      [] feature = "Sleep_Quality" -> 1
      [] feature = "Physical_Activity" -> 0
      [] feature = "Screen_Time" -> 100
      [] feature = "Caffeine_Intake" -> 0
      [] feature = "Work_Hours" -> 400
      [] feature = "Travel_Time" -> 0
      [] feature = "Social_Interactions" -> 1

RangeHi(feature) ==
    CASE feature = "Age" -> 65
      [] feature = "Sleep_Duration" -> 1200
      [] feature = "Sleep_Quality" -> 5
      [] feature = "Physical_Activity" -> 5
      [] feature = "Screen_Time" -> 1400
      [] feature = "Caffeine_Intake" -> 8
      [] feature = "Work_Hours" -> 1600
      [] feature = "Travel_Time" -> 400
      [] feature = "Social_Interactions" -> 5

(* The features _validate_input_ranges reads, in its order.                *)
ValidatedFeatures ==
    << "Age", "Sleep_Duration", "Sleep_Quality", "Physical_Activity",
       "Screen_Time", "Caffeine_Intake", "Work_Hours", "Travel_Time",
       "Social_Interactions" >>

(* input_data.get(feature, 0)                                              *)
GetOrZero(input_data, feature) ==
    IF feature \in DOMAIN input_data THEN input_data[feature] ELSE Num(0)

(* The errors of _validate_input_ranges: the features out of range, in     *)
(* order; comparing a non-number raises, which ends the scan with one      *)
(* more error.                                                             *)
_validate_input_ranges_exclusive(input_data) ==
    LET Bad(i) == LET v == GetOrZero(input_data, ValidatedFeatures[i])
                  IN  v.k # "num"
                      \/ ~(RangeLo(ValidatedFeatures[i]) < v.n
                           /\ v.n < RangeHi(ValidatedFeatures[i]))
    IN  SelectSeq(ValidatedFeatures,
                  LAMBDA f : \E i \in 1..Len(ValidatedFeatures) :
                                 ValidatedFeatures[i] = f /\ Bad(i))

_validate_input_ranges(input_data) ==
    LET Val(i) == GetOrZero(input_data, ValidatedFeatures[i])
        Raises(i) == Val(i).k # "num"
        Before(i) == \A j \in 1..(i - 1) : ~Raises(j)
        Bad(i) == /\ Before(i)
                  /\ \/ Raises(i)
                     \/ ~(RangeLo(ValidatedFeatures[i]) <= Val(i).n
                          /\ Val(i).n <= RangeHi(ValidatedFeatures[i]))
    IN  SelectSeq(ValidatedFeatures,
                  LAMBDA f : \E i \in 1..Len(ValidatedFeatures) :
                                 ValidatedFeatures[i] = f /\ Bad(i))

(* ModelService.preprocess_input: None (is_none) when an expected feature *)
(* is missing, when a range check fails, or at the first feature of the    *)
(* artifact's list that cannot be encoded; else the feature vector in the  *)
(* artifact's order.                                                       *)
SvcEncode(feature, input_data) ==
    IF feature \notin DOMAIN input_data THEN [ok |-> FALSE, value |-> 0]
    ELSE IF feature \in CategoricalFeatures
    THEN LET code == IF input_data[feature].k = "str"
                     THEN CategoricalCode(feature, input_data[feature].s) ELSE -1
         IN  [ok |-> code >= 0, value |-> code]
    ELSE [ok |-> input_data[feature].k = "num", value |-> input_data[feature].n]

svc_preprocess_input(obj, input_data) ==
    LET missing_features ==
            SelectSeq(ExpectedFeatures, LAMBDA f : f \notin DOMAIN input_data)
        validation_errors == _validate_input_ranges(input_data)
        enc == [i \in 1..Len(obj.feature_names) |->
                   SvcEncode(obj.feature_names[i], input_data)]
    IN  IF missing_features # << >> THEN [is_none |-> TRUE, features |-> << >>]
        ELSE IF validation_errors # << >> THEN [is_none |-> TRUE, features |-> << >>]
        ELSE IF \E i \in 1..Len(enc) : ~enc[i].ok
        THEN [is_none |-> TRUE, features |-> << >>]
        ELSE [is_none |-> FALSE, features |-> [i \in 1..Len(enc) |-> enc[i].value]]

(* ModelService._get_feature_importance: << >> stands for None; else the   *)
(* (feature, importance) pairs in the order of feature_names.              *)
_get_feature_importance(obj) ==
    IF ~obj.is_loaded \/ obj.model.importances = << >> THEN << >>
    ELSE LET n == IF Len(obj.feature_names) < Len(obj.model.importances)
                  THEN Len(obj.feature_names) ELSE Len(obj.model.importances)
         IN  [i \in 1..n |-> [name |-> obj.feature_names[i],
                              value |-> obj.model.importances[i]]]

(* sorted(feature_importance.items(), key=..., reverse=True)[0][0]: the    *)
(* first feature holding the largest importance.                           *)
TopFeature(feature_importance) ==
    LET best == CHOOSE i \in 1..Len(feature_importance) :
                  /\ \A j \in 1..Len(feature_importance) :
                         feature_importance[j].value <= feature_importance[i].value
                  /\ \A j \in 1..(i - 1) :
                         feature_importance[j].value < feature_importance[i].value
    IN  feature_importance[best].name

(* top_feature_name.lower().replace('_', ' ')                              *)
LowerSpaced(name) ==
    CASE name = "Age" -> "age"
      [] name = "Gender" -> "gender"
      [] name = "Sleep_Duration" -> "sleep duration"
      [] name = "Sleep_Quality" -> "sleep quality"
      [] name = "Physical_Activity" -> "physical activity"
      [] name = "Screen_Time" -> "screen time"
      [] name = "Caffeine_Intake" -> "caffeine intake"
      [] name = "Smoking_Habit" -> "smoking habit"
      [] name = "Work_Hours" -> "work hours"
      [] name = "Travel_Time" -> "travel time"
      [] name = "Social_Interactions" -> "social interactions"
      [] name = "Meditation_Practice" -> "meditation practice"
      [] name = "Exercise_Type" -> "exercise type"
      [] OTHER -> name

(* ModelService._generate_insights (services/model_service.py), on an      *)
(* input whose validated features are numbers.                             *)
SleepLowInsight == "Your sleep duration is below the recommended 7-9 hours"
SleepHighInsight == "You're getting plenty of sleep, which is great for stress management"
WorkInsight == "Long work hours may be a significant stress factor"
ActivityInsight == "Increasing physical activity could help reduce stress"
ScreenInsight == "High screen time may be contributing to your stress levels"
CaffeineInsight == "High caffeine intake might be affecting your stress levels"

svc_generate_insights(obj, input_data, stress_level) ==
    LET N(f) == GetOrZero(input_data, f).n
        feature_importance == _get_feature_importance(obj)
        sleep == IF N("Sleep_Duration") < 600 THEN << SleepLowInsight >>
                 ELSE IF N("Sleep_Duration") > 900 THEN << SleepHighInsight >>
                 ELSE << >>
        work == IF N("Work_Hours") > 1000 THEN << WorkInsight >> ELSE << >>
        activity == IF N("Physical_Activity") < 1 THEN << ActivityInsight >> ELSE << >>
        factor == IF feature_importance # << >>
                     /\ TopFeature(feature_importance) \in DOMAIN input_data
                  THEN << "Your " \o LowerSpaced(TopFeature(feature_importance))
                          \o " appears to be a key factor in your stress level" >>
                  ELSE << >>
        screen == IF N("Screen_Time") > 800 THEN << ScreenInsight >> ELSE << >>
        caffeine == IF N("Caffeine_Intake") > 3 THEN << CaffeineInsight >> ELSE << >>
        insights == sleep \o work \o activity \o factor \o screen \o caffeine
    IN  IF insights = << >>
        THEN << "Your current stress level is " \o Lower(stress_level) >>
        ELSE insights

(* ModelService.predict (services/model_service.py): the result or None,  *)
(* with the invocations of the encoder, predict and predict_proba made.    *)
(* An exception anywhere in the body ends in None.                         *)
SvcNoResult ==
    [ level |-> "", score |-> 0, confidence |-> 0, insights |-> << >>,
      recommendations |-> << >>, model_name |-> "", model_score |-> 0,
      feature_importance |-> << >> ]

SvcNone(enc, clf, pp, clf_raised) ==
    [ is_none |-> TRUE, result |-> SvcNoResult,
      enc_calls |-> enc, clf_calls |-> clf, proba_calls |-> pp,
      clf_raised |-> clf_raised ]

(* reverse_stress_mappings                                                 *)
ReverseStressMapping(code) ==
    CASE code = 0 -> "Low" [] code = 1 -> "Medium" [] code = 2 -> "High"
      [] OTHER -> ""

svc_predict(obj, input_data, o) ==
    IF ~obj.is_loaded THEN SvcNone(0, 0, 0, FALSE)
    ELSE
      LET processed_features == svc_preprocess_input(obj, input_data)
          probed == obj.model.has_proba
      IN  IF processed_features.is_none THEN SvcNone(1, 0, 0, FALSE)
          ELSE IF ~obj.model.has_predict THEN SvcNone(1, 0, 0, FALSE)
          ELSE IF o.pred_raises # "" THEN SvcNone(1, 1, 0, TRUE)
          ELSE IF probed /\ o.proba_raises # "" THEN SvcNone(1, 1, 1, TRUE)
          ELSE IF o.pred.k = "num" /\ ReverseStressMapping(o.pred.n) = ""
          THEN SvcNone(1, 1, IF probed THEN 1 ELSE 0, FALSE)
          ELSE
            LET confidence_score == IF probed THEN o.proba ELSE DefaultConfidence
                stress_level == IF o.pred.k = "num"
                                THEN ReverseStressMapping(o.pred.n)
                                ELSE StrOf(o.pred)
            IN  [ is_none |-> FALSE,
                  result  |->
                    [ level           |-> stress_level,
                      score           |-> NumericalScore(stress_level),
                      confidence      |-> confidence_score,
                      insights        |-> svc_generate_insights(obj, input_data, stress_level),
                      recommendations |-> _generate_recommendations(stress_level),
                      model_name      |-> obj.model_name,
                      model_score     |-> obj.model_score,
                      feature_importance |-> _get_feature_importance(obj) ],
                  enc_calls   |-> 1,
                  clf_calls   |-> 1,
                  proba_calls |-> IF probed THEN 1 ELSE 0,
                  clf_raised  |-> FALSE ]

-----------------------------------------------------------------------------
(* The inputs predict is called on in SpecM.                               *)

(* The boundary input of tests/test_model_service_complete.py              *)
(* (test_edge_cases): every numeric field at its minimum.                  *)
EdgeInput ==
    [f \in {ExpectedFeatures[i] : i \in 1..Len(ExpectedFeatures)} |->
        CASE f = "Gender" -> Str("Female")
          [] f = "Smoking_Habit" -> Str("Yes")
          [] f = "Meditation_Practice" -> Str("No")
          [] f = "Exercise_Type" -> Str("Walking")
          [] OTHER -> Num(RangeLo(f))]

(* Every numeric field at its maximum.                                     *)
UpperEdgeInput ==
    [f \in DOMAIN EdgeInput |->
        IF f \in CategoricalFeatures THEN EdgeInput[f] ELSE Num(RangeHi(f))]

(* The valid input of tests/test_model_service_complete.py                 *)
(* (test_valid_prediction).                                                *)
TypicalInput ==
    [f \in DOMAIN EdgeInput |->
        CASE f = "Age" -> Num(30)
          [] f = "Gender" -> Str("Male")
          [] f = "Sleep_Duration" -> Num(700)
          [] f = "Sleep_Quality" -> Num(4)
          [] f = "Physical_Activity" -> Num(2)
          [] f = "Screen_Time" -> Num(400)
          [] f = "Caffeine_Intake" -> Num(1)
          [] f = "Smoking_Habit" -> Str("No")
          [] f = "Work_Hours" -> Num(800)
          [] f = "Travel_Time" -> Num(100)
          [] f = "Social_Interactions" -> Num(5)
          [] f = "Meditation_Practice" -> Str("Yes")
          [] f = "Exercise_Type" -> Str("Cardio")]

(* TypicalInput with the given values, a feature being left out when its   *)
(* value is Absent.                                                        *)
InputWith(changes) ==
    Body([f \in DOMAIN TypicalInput |->
            IF f \in DOMAIN changes THEN changes[f] ELSE TypicalInput[f]])

(* Inputs around what predict rejects.                                     *)
RejectionInputs ==
    { InputWith([Age |-> age, Gender |-> gender, Exercise_Type |-> exercise,
                 Sleep_Duration |-> sleep, Work_Hours |-> work]) :
        age \in {Absent, Num(17), Num(18), Num(65), Num(66)},
        gender \in {Str("Male"), Str("Other")},
        exercise \in {Str("Pilates"), Str("Dancing")},
        sleep \in {Num(399), Num(400), Num(1200), Str("eight")},
        work \in {Num(1600), Num(1601)} }

(* Inputs around the thresholds of the insight rules.                      *)
ThresholdInputs ==
    { InputWith([Sleep_Duration |-> Num(sleep), Work_Hours |-> Num(work),
                 Travel_Time |-> Num(travel), Physical_Activity |-> Num(activity),
                 Screen_Time |-> Num(screen), Caffeine_Intake |-> Num(caffeine)]) :
        sleep \in {590, 600, 900, 910},
        work \in {1000, 1010},
        travel \in {0, 400},
        activity \in {0, 1},
        screen \in {800, 810},
        caffeine \in {3, 4} }

ServiceInputs ==
    RejectionInputs \cup ThresholdInputs \cup {EdgeInput, UpperEdgeInput}

(* What the classifier does when this service invokes it.                  *)
ServiceOutcomes ==
    { Outcome("", Num(0), "", 70), Outcome("", Num(1), "", 90),
      Outcome("", Num(2), "", 100), Outcome("", Num(3), "", 90),
      Outcome("", Str("Low"), "", 90), Outcome("", Str("High"), "", 60),
      Outcome("", Str("low"), "", 90),
      Outcome("ValueError", NoPrediction, "", 0),
      Outcome("", Str("Medium"), "ValueError", 0) }

NoOutcome == Outcome("", NoPrediction, "", 0)

-----------------------------------------------------------------------------
(* SpecM: a ModelService object is constructed, load_model is called on    *)
(* files and predict on inputs, in any order.                              *)

NoServiceCall ==
    [ op |-> "none", ret |-> FALSE, input |-> EdgeInput, outcome |-> NoOutcome,
      out |-> SvcNone(0, 0, 0, FALSE), before |-> SvcNew ]

InitM ==
    /\ raw_input = ExampleBody
    /\ validation = NotValidated
    /\ ServiceInit([test |-> FileAbsent, prod |-> FileAbsent])

ServiceNew ==
    /\ service = NoneService
    /\ service' = SvcNew
    /\ service_ret' = NoServiceCall
    /\ UNCHANGED <<raw_input, validation, phase, fs, model_files, model_loaded,
                   model_service, model_path, prediction_cache, now, last>>

ServiceLoad ==
    /\ service # NoneService
    /\ \E f \in ServiceFiles :
         LET r == svc_load_model(service, f)
         IN  /\ service' = r.obj
             /\ service_ret' = [NoServiceCall EXCEPT !.op = "load_model",
                                                    !.ret = r.ret,
                                                    !.before = service]
    /\ UNCHANGED <<raw_input, validation, phase, fs, model_files, model_loaded,
                   model_service, model_path, prediction_cache, now, last>>

(* predict leaves the object as it is: a predict that follows a predict    *)
(* reaches nothing a single predict does not, so one is taken at a time.   *)
ServicePredict ==
    /\ service # NoneService
    /\ service_ret.op # "predict"
    /\ \E input_data \in ServiceInputs, o \in ServiceOutcomes :
         LET r == svc_predict(service, input_data, o)
         IN  service_ret' = [NoServiceCall EXCEPT
                               !.op = "predict",
                               !.ret = ~r.is_none,
                               !.input = input_data,
                               !.outcome = IF r.clf_calls > 0 THEN o ELSE NoOutcome,
                               !.out = r,
                               !.before = service]
    /\ UNCHANGED <<raw_input, validation, phase, fs, model_files, model_loaded,
                   model_service, model_path, prediction_cache, now, last,
                   service>>

NextM ==
    \/ ServiceNew
    \/ ServiceLoad
    \/ ServicePredict

SpecM == InitM /\ [][NextM]_vars

-----------------------------------------------------------------------------
(* What an input lacks or gets wrong, read off the dataset's rules.        *)

SeqSet(q) == {q[i] : i \in 1..Len(q)}

LacksExpectedFeature(input_data) ==
    \E f \in SeqSet(ExpectedFeatures) : f \notin DOMAIN input_data

NumberInRange(f, v) == v.k = "num" /\ RangeLo(f) <= v.n /\ v.n <= RangeHi(f)

NumericOutOfRange(input_data) ==
    \E f \in SeqSet(ValidatedFeatures) \cap DOMAIN input_data :
        ~NumberInRange(f, input_data[f])

Unmapped(f, v) == v.k # "str" \/ CategoricalCode(f, v.s) < 0

UnmappedCategorical(input_data) ==
    \E f \in CategoricalFeatures \cap DOMAIN input_data : Unmapped(f, input_data[f])

UnmappedDeclaredCategorical(obj, input_data) ==
    \E f \in CategoricalFeatures \cap DOMAIN input_data \cap SeqSet(obj.feature_names) :
        Unmapped(f, input_data[f])

AtRangeBounds(input_data) ==
    /\ ~LacksExpectedFeature(input_data)
    /\ ~UnmappedCategorical(input_data)
    /\ \A f \in SeqSet(ValidatedFeatures) :
         input_data[f].k = "num" /\ input_data[f].n \in {RangeLo(f), RangeHi(f)}

(* predict was called on a loaded service that holds a classifier and      *)
(* whose feature names are among the expected features.                    *)
PredictOnLoaded ==
    /\ service_ret.op = "predict"
    /\ service_ret.before.is_loaded
    /\ service_ret.before.model.has_predict
    /\ SeqSet(service_ret.before.feature_names) \subseteq SeqSet(ExpectedFeatures)

RejectedUninvoked == service_ret.out.is_none /\ service_ret.out.clf_calls = 0

-----------------------------------------------------------------------------
(* C13. Whenever the facade is Ready, its service reports loaded, the      *)
(* classifier it holds exposes a predict capability and the artifact it    *)
(* was loaded from carried all of model, feature names, model name and     *)
(* model score.                                                            *)
C13_LoadedIsWellFormed ==
    FacadeState = "Ready" =>
        /\ model_service.is_loaded
        /\ model_service.model.has_predict
        /\ RequiredKeySet \subseteq FileAt(model_service.model_path).artifact.keys
        /\ model_service.feature_names
             = FileAt(model_service.model_path).artifact.feature_names

-----------------------------------------------------------------------------
(* The table of categorical codes as the specification gives it.           *)
TableFeatures == {"Gender", "Smoking_Habit", "Meditation_Practice", "Exercise_Type"}

TableCode(feature, value) ==
    CASE feature = "Gender" /\ value = "Male" -> 0
      [] feature = "Gender" /\ value = "Female" -> 1
      [] feature = "Smoking_Habit" /\ value = "No" -> 0
      [] feature = "Smoking_Habit" /\ value = "Yes" -> 1
      [] feature = "Meditation_Practice" /\ value = "No" -> 0
      [] feature = "Meditation_Practice" /\ value = "Yes" -> 1
      [] feature = "Exercise_Type" /\ value = "Cardio" -> 0
      [] feature = "Exercise_Type" /\ value = "Yoga" -> 1
      [] feature = "Exercise_Type" /\ value = "Strength Training" -> 2
      [] feature = "Exercise_Type" /\ value = "Aerobics" -> 3
      [] feature = "Exercise_Type" /\ value = "Walking" -> 4
      [] feature = "Exercise_Type" /\ value = "Pilates" -> 5

(* The last call was a predict call on a validated request for which the   *)
(* encoder produced a feature vector.                                      *)
FeatureVectorBuilt == ValidPredictCall /\ last.features # << >>

(* C14: for a validated request the feature vector has as many entries as  *)
(* the artifact's feature-name list, and entry i is the table code of the  *)
(* request's value for feature name i when that feature is categorical and *)
(* the request's number itself otherwise.                                  *)
C14_FeatureVectorEncodes ==
    FeatureVectorBuilt =>
        /\ Len(last.features) = Len(model_service.feature_names)
        /\ \A i \in 1..Len(model_service.feature_names) :
              LET feature == model_service.feature_names[i]
                  value   == last.input[feature]
              IN  last.features[i] = IF feature \in TableFeatures
                                     THEN TableCode(feature, value)
                                     ELSE value

(* A vector built in an artifact's own column order, whose first entry is  *)
(* the code of Walking.                                                    *)
C14_Witness ==
    /\ FeatureVectorBuilt
    /\ model_service.feature_names[1] = "Exercise_Type"
    /\ last.input.Exercise_Type = "Walking"
    /\ last.features[1] = 4
    /\ last.features[2] = last.input.Age

-----------------------------------------------------------------------------
(* The label the specification assigns to a raw classifier output: the     *)
(* table for integer class codes, the title-cased match for strings; ""    *)
(* for an output of neither form.                                          *)
LabelOf(prediction) ==
    IF prediction.k = "num"
    THEN (CASE prediction.n = 0 -> "Low" [] prediction.n = 1 -> "Medium"
            [] prediction.n = 2 -> "High" [] OTHER -> "")
    ELSE (CASE prediction.s \in {"Low", "low"} -> "Low"
            [] prediction.s \in {"Medium", "medium"} -> "Medium"
            [] prediction.s \in {"High", "high"} -> "High"
            [] OTHER -> "")

(* The last call was a predict call in which predict and predict_proba     *)
(* returned, with a confidence inside [0, 1].                              *)
ClassifierReturned ==
    /\ ValidPredictCall
    /\ last.clf_calls > 0 /\ ~last.clf_raised
    /\ last.confidence >= 0 /\ last.confidence <= 100

(* C15: a classifier output that is an integer class code 0, 1 or 2, or a  *)
(* string matching Low, Medium or High in any case, yields a response with *)
(* the corresponding title-cased label, never a fallback.                  *)
C15_LabelMapped ==
    (ClassifierReturned /\ LabelOf(last.prediction) # "") =>
        /\ last.path = "fresh"
        /\ last.response.level = LabelOf(last.prediction)

-----------------------------------------------------------------------------
(* The last call returned a response computed by the model: fresh, or      *)
(* served from the cache.                                                  *)
ModelResponse == ValidPredictCall /\ last.path \in {"fresh", "cache_hit"}

-----------------------------------------------------------------------------
(* An entry is expired when it is not valid for lookup: its age is not     *)
(* less than the TTL.                                                      *)
Expired(entry) == ~(now - entry.timestamp < cache_ttl)

(* C17: when a cache write has completed, the cache holds no expired       *)
(* entry.                                                                  *)
C17_NoExpiredAfterWrite ==
    (ValidPredictCall /\ last.cache_write) =>
        \A k \in DOMAIN prediction_cache : ~Expired(prediction_cache[k])

-----------------------------------------------------------------------------
(* SpecK: _generate_cache_key applied to two model inputs, each a dict     *)
(* built from a validated request with its keys in some insertion order;   *)
(* the first is stored in an empty cache under its key and the second is   *)
(* looked up.                                                              *)

(* Request bodies that pass validation; the third normalises (rounding to  *)
(* one decimal) to the values of the first.                                *)
KeyBodies ==
    { ExampleBody, HighStressBody,
      [ExampleBody EXCEPT !["sleep_duration"] = Num(754)],
      [ExampleBody EXCEPT !["age"] = Num(31)] }

Reverse(q) == [i \in 1..Len(q) |-> q[Len(q) + 1 - i]]

(* Insertion orders of the 13 keys.                                        *)
KeyOrders ==
    { ModelFormatOrder, SortedKeyOrder, Reverse(ModelFormatOrder),
      ArtNoProba.feature_names }

KeyInputs ==
    { Items(order, to_model_format(raw)) : order \in KeyOrders, raw \in KeyBodies }

NoKeyCall ==
    [ op |-> "none", first |-> << >>, second |-> << >>,
      first_key |-> NoKey, second_key |-> NoKey, hit |-> FALSE ]

InitK ==
    /\ raw_input = ExampleBody
    /\ validation = NotValidated
    /\ service = NoneService
    /\ service_ret = NoCall
    /\ phase = "running"
    /\ fs = [test |-> FileAbsent, prod |-> FileAbsent]
    /\ model_files = << >>
    /\ model_loaded = FALSE
    /\ model_service = NoneService
    /\ model_path = TestPath
    /\ prediction_cache = EmptyCache
    /\ now = 0
    /\ last = NoKeyCall

GenerateKeys ==
    /\ \E first \in KeyInputs, second \in KeyInputs :
         LET first_key  == _generate_cache_key(first)
             second_key == _generate_cache_key(second)
             cache == CachePut(EmptyCache, first_key,
                               [response |-> NoResponse, timestamp |-> now])
         IN  last' = [ op |-> "cache_key", first |-> first, second |-> second,
                       first_key |-> first_key, second_key |-> second_key,
                       hit |-> second_key \in DOMAIN cache ]
    /\ UNCHANGED <<raw_input, validation, phase, fs, model_files, model_loaded,
                   model_service, model_path, prediction_cache, now, service,
                   service_ret>>

NextK == GenerateKeys

SpecK == InitK /\ [][NextK]_vars

(* The value a dict holds for a key.                                       *)
ValueIn(items, key) == items[CHOOSE j \in 1..Len(items) : items[j][1] = key][2]

(* Two model inputs hold equal values for each of the 13 fields.           *)
SameValues(a, b) ==
    \A i \in 1..Len(ModelFormatOrder) :
        ValueIn(a, ModelFormatOrder[i]) = ValueIn(b, ModelFormatOrder[i])

(* C18: two model inputs have the same cache key exactly when their 13     *)
(* normalized field values are equal, in whatever order the fields were    *)
(* put in; so a lookup hits only an entry stored for equal values.         *)
C18_KeyByContent ==
    last.op = "cache_key" =>
        /\ (last.first_key = last.second_key) <=> SameValues(last.first, last.second)
        /\ last.hit => SameValues(last.first, last.second)

(* Two inputs with equal values inserted in different orders: one key, and *)
(* the lookup of the second hits the entry of the first.                   *)
C18_Witness ==
    /\ last.op = "cache_key"
    /\ last.first # last.second
    /\ last.first[1][1] # last.second[1][1]
    /\ SameValues(last.first, last.second)
    /\ last.first_key = last.second_key
    /\ last.hit

-----------------------------------------------------------------------------
(* SpecC: concurrent predict calls on the one event loop, sharing          *)
(* prediction_cache. A call is a coroutine of predict_stress; the loop     *)
(* runs one coroutine at a time, from where it stands to its next await or *)
(* to its return. The handler is cut at the places where it touches the    *)
(* cache:                                                                  *)
(*   start          cache_key = ...; "if cache_key in prediction_cache"    *)
(*   cached_entry   "cached_entry = prediction_cache[cache_key]" and the   *)
(*                  validity test, returning the cached response           *)
(*   remove_expired "del prediction_cache[cache_key]"                      *)
(*   inference      model_service.predict and the response formatting      *)
(*   cache_write    storing the response and the sweep                     *)

Calls == {1, 2}

ConcurrentBodies == {ExampleBody, HighStressBody}

ConcurrentOutcomes ==
    { Outcome("", Str("Low"), "", 90), Outcome("RuntimeError", NoPrediction, "", 0) }

NoCoroutine ==
    [ pc |-> "idle", input |-> NoInput, key |-> NoKey, o |-> Outcome("", NoPrediction, "", 0),
      path |-> "", response |-> NoResponse, evicted |-> FALSE, with_pending |-> FALSE ]

(* The handler awaits nothing between its first statement and its return   *)
(* (it is "async def" with no await in its body), so no place of the       *)
(* handler hands the loop to another coroutine.                            *)
AwaitsAtRemoveExpired(pc) == pc = "remove_expired"

AwaitsAt(pc) == FALSE

Returned(call, path, response) ==
    [call EXCEPT !.pc = "done", !.path = path, !.response = response]

(* An exception the handler does not name (a KeyError of the cache) caught *)
(* by its last "except Exception": the fallback response.                  *)
UnexpectedError(call) == Returned(call, "fallback_unexpected", FallbackResponse)

(* One piece of the handler, run by the call standing at call.pc on the    *)
(* cache as it is now: the call and the cache afterwards.                  *)
HandlerSegment(call, cache) ==
    CASE call.pc = "start" ->
           LET cache_key == _generate_cache_key(Items(ModelFormatOrder, call.input))
           IN  [ call |-> [call EXCEPT !.key = cache_key,
                                       !.pc = IF cache_key \in DOMAIN cache
                                              THEN "cached_entry" ELSE "inference"],
                 cache |-> cache ]
      [] call.pc = "cached_entry" ->
           IF call.key \notin DOMAIN cache
           THEN [call |-> UnexpectedError(call), cache |-> cache]
           ELSE IF _is_cache_valid(cache[call.key].timestamp)
           THEN [ call |-> Returned(call, "cache_hit", cache[call.key].response),
                  cache |-> cache ]
           ELSE [call |-> [call EXCEPT !.pc = "remove_expired"], cache |-> cache]
      [] call.pc = "remove_expired" ->
           IF call.key \notin DOMAIN cache
           THEN [call |-> UnexpectedError(call), cache |-> cache]
           ELSE [ call |-> [call EXCEPT !.pc = "inference", !.evicted = TRUE],
                  cache |-> CacheDel(cache, {call.key}) ]
      [] call.pc = "inference" ->
           LET pr == InvokeModelService(model_service, call.input, call.o)
               response == MakeResponse(pr.result, _create_wellness_plan(pr.result.level))
           IN  [ call |->
                   CASE pr.raised = "ValueError" ->
                          Returned(call, "model_validation_error", NoResponse)
                     [] pr.raised = "FileNotFoundError" ->
                          Returned(call, "fallback_file_not_found", FallbackResponse)
                     [] pr.raised = "MemoryError" ->
                          Returned(call, "service_unavailable", NoResponse)
                     [] pr.raised \notin {"", "ValueError", "FileNotFoundError", "MemoryError"} ->
                          Returned(call, "fallback_model_error", FallbackResponse)
                     [] pr.raised = "" /\ pr.is_none ->
                          Returned(call, "fallback_none", FallbackResponse)
                     [] OTHER ->
                          IF ~ResponseValid(pr.result)
                          THEN Returned(call, "fallback_format", FallbackResponse)
                          ELSE [call EXCEPT !.pc = "cache_write", !.response = response],
                 cache |-> cache ]
      [] call.pc = "cache_write" ->
           [ call |-> Returned(call, "fresh", call.response),
             cache |-> CacheStore(cache, call.key, call.response) ]

(* The coroutine goes on to its next piece unless it has returned or       *)
(* awaits there.                                                           *)
Continue(s) ==
    IF s.call.pc = "done" \/ AwaitsAt(s.call.pc) THEN s
    ELSE HandlerSegment(s.call, s.cache)

(* The loop runs a coroutine until it awaits or returns: at most the five  *)
(* pieces of the handler.                                                  *)
RunCoroutine(call, cache) ==
    Continue(Continue(Continue(Continue(HandlerSegment(call, cache)))))

InitC ==
    /\ raw_input = ExampleBody
    /\ validation = NotValidated
    /\ service = NoneService
    /\ service_ret = NoCall
    /\ phase = "running"
    /\ fs = Env(FileOf(ArtForest), FileAbsent)
    /\ model_files = << >>
    /\ model_loaded = TRUE
    /\ model_service = load_model(NewModelService(TestPath), FileOf(ArtForest)).svc
    /\ model_path = TestPath
    /\ prediction_cache = EmptyCache
    /\ now = 0
    /\ last = [c \in Calls |-> NoCoroutine]

(* A validated request arrives and its coroutine is created.               *)
CallArrives(c) ==
    /\ last[c].pc \in {"idle", "done"}
    /\ \E raw \in ConcurrentBodies, o \in ConcurrentOutcomes :
         last' = [last EXCEPT ![c] =
                    [NoCoroutine EXCEPT !.pc = "start", !.input = to_model_format(raw),
                                        !.o = o,
                                        !.with_pending =
                                            \E d \in Calls \ {c} :
                                                last[d].pc \notin {"idle", "done"}]]
    /\ UNCHANGED <<raw_input, validation, phase, fs, model_files, model_loaded,
                   model_service, model_path, prediction_cache, now, service,
                   service_ret>>

(* The loop resumes the coroutine of call c.                               *)
CallRuns(c) ==
    /\ last[c].pc \notin {"idle", "done"}
    /\ \E s \in {RunCoroutine(last[c], prediction_cache)} :
         /\ last' = [last EXCEPT ![c] = s.call]
         /\ prediction_cache' = s.cache
    /\ UNCHANGED <<raw_input, validation, phase, fs, model_files, model_loaded,
                   model_service, model_path, now, service, service_ret>>

(* Time passes between two runs of the loop: long enough for the entries   *)
(* of the cache to expire.                                                 *)
ClockTick ==
    /\ now + cache_ttl <= MaxTime
    /\ now' = now + cache_ttl
    /\ UNCHANGED <<raw_input, validation, phase, fs, model_files, model_loaded,
                   model_service, model_path, prediction_cache, last, service,
                   service_ret>>

NextC ==
    \/ \E c \in Calls : CallArrives(c)
    \/ \E c \in Calls : CallRuns(c)
    \/ ClockTick

SpecC == InitC /\ [][NextC]_vars

(* The response of a call is the one computed for its own request.         *)
ComputedFor(call) ==
    LET pr == predict(model_service, call.input, call.o)
    IN  /\ call.key = _generate_cache_key(Items(ModelFormatOrder, call.input))
        /\ call.response = MakeResponse(pr.result, _create_wellness_plan(pr.result.level))

(* C19: under every interleaving of concurrent predict calls, an entry     *)
(* put in the cache under key k is the response computed for a request     *)
(* with key k, stamped with the time of the write, and no call ends in the *)
(* fallback of an unexpected error because another call removed the entry  *)
(* it had looked up.                                                       *)
C19_CacheNotCorrupted ==
    [][ /\ \A k \in DOMAIN prediction_cache' :
             (k \notin DOMAIN prediction_cache \/ prediction_cache'[k] # prediction_cache[k])
                => \E c \in Calls :
                      /\ last[c].pc # "done" /\ last'[c].pc = "done"
                      /\ last'[c].path = "fresh"
                      /\ last'[c].key = k
                      /\ ComputedFor(last'[c])
                      /\ prediction_cache'[k] =
                            [response |-> last'[c].response, timestamp |-> now]
        /\ \A c \in Calls : last'[c].path # "fallback_unexpected" ]_vars

(* Two calls for one request were pending together on an expired entry:    *)
(* the first removed it and stored a fresh response, the second was served *)
(* that response from the cache.                                           *)
C19_Witness ==
    /\ last[1].pc = "done" /\ last[2].pc = "done"
    /\ last[2].with_pending
    /\ last[1].key = last[2].key
    /\ last[1].evicted /\ last[1].path = "fresh"
    /\ last[2].path = "cache_hit"
    /\ last[2].response = last[1].response
    /\ prediction_cache[last[1].key].timestamp = now

-----------------------------------------------------------------------------
(* class ResponseFormatter (services/response_formatter.py): the lifestyle *)
(* insights, and SpecF, in which the formatter is applied to inputs.       *)

SleepPlentyInsight == "You're getting plenty of sleep, which supports stress management"
WorkCommuteInsight == "Your total work and commute time may be impacting your stress levels"
MeditationInsight == "Your meditation practice is a valuable tool for stress management"

(* exercise_type.lower()                                                   *)
ExerciseLower(exercise_type) ==
    CASE exercise_type = "Cardio" -> "cardio"
      [] exercise_type = "Yoga" -> "yoga"
      [] exercise_type = "Strength Training" -> "strength training"
      [] exercise_type = "Aerobics" -> "aerobics"
      [] exercise_type = "Walking" -> "walking"
      [] exercise_type = "Pilates" -> "pilates"
      [] OTHER -> exercise_type

(* ResponseFormatter._generate_lifestyle_insights (hours in hundredths).   *)
_generate_lifestyle_insights(input_data) ==
    LET N(f) == GetOrZero(input_data, f).n
        sleep_duration == N("Sleep_Duration")
        total_work_time == N("Work_Hours") + N("Travel_Time")
        physical_activity == N("Physical_Activity")
        exercise_type == IF "Exercise_Type" \in DOMAIN input_data
                         THEN input_data["Exercise_Type"].s ELSE ""
        meditation == IF "Meditation_Practice" \in DOMAIN input_data
                      THEN input_data["Meditation_Practice"].s ELSE "No"
    IN  (IF sleep_duration < 600 THEN << SleepLowInsight >>
         ELSE IF sleep_duration > 900 THEN << SleepPlentyInsight >> ELSE << >>)
        \o (IF total_work_time > 1000 THEN << WorkCommuteInsight >> ELSE << >>)
        \o (IF physical_activity < 2 THEN << ActivityInsight >>
            ELSE IF physical_activity >= 4
            THEN << "Your regular " \o ExerciseLower(exercise_type)
                    \o " routine is excellent for stress management" >>
            ELSE << >>)
        \o (IF N("Screen_Time") > 1000 THEN << ScreenInsight >> ELSE << >>)
        \o (IF meditation = "Yes" THEN << MeditationInsight >> ELSE << >>)

(* ResponseFormatter._categorize_stress_level: the label of a raw level.   *)
(* raw_level.strip().title() maps the spellings of a label onto it; a      *)
(* number is compared with 0.33 and 0.66 (here in hundredths).             *)
StripTitle(raw) ==
    CASE raw \in {"Low", "low", "LOW", " low "} -> "Low"
      [] raw \in {"Medium", "medium", "MEDIUM"} -> "Medium"
      [] raw \in {"High", "high", "HIGH", "high "} -> "High"
      [] OTHER -> raw

_categorize_stress_level(raw_level) ==
    IF raw_level.k = "str" /\ StripTitle(raw_level.s) \in {"Low", "Medium", "High"}
    THEN StripTitle(raw_level.s)
    ELSE IF raw_level.k = "num"
    THEN (IF raw_level.n <= 33 THEN "Low"
          ELSE IF raw_level.n <= 66 THEN "Medium" ELSE "High")
    ELSE "Medium"

(* int(round(x)) of Python 3 for x = hundredths / 100: to the nearest      *)
(* integer, a half to the even neighbour.                                  *)
RoundHalfEven(hundredths) ==
    LET floor == hundredths \div 100
        rest == hundredths % 100
    IN  IF rest < 50 THEN floor
        ELSE IF rest > 50 THEN floor + 1
        ELSE IF floor % 2 = 0 THEN floor ELSE floor + 1

(* ResponseFormatter._calculate_numerical_score; confidence in hundredths, *)
(* Absent when prediction_result has none (then 0.8).                      *)
_calculate_numerical_score(stress_level, confidence) ==
    LET c == IF confidence.k = "absent" THEN 80 ELSE confidence.n
        low == 2500 - (100 - c) * 15
        high == 7500 + (100 - c) * 15
    IN  IF stress_level = "Low"
        THEN RoundHalfEven(IF low < 1000 THEN 1000 ELSE low)
        ELSE IF stress_level = "High"
        THEN RoundHalfEven(IF high > 9000 THEN 9000 ELSE high)
        ELSE 50

(* ResponseFormatter._generate_feature_insight: the sentence of the        *)
(* template table for the feature, << >> for a feature it has no template  *)
(* for. feature_value is Absent when input_data has no such field.         *)
FeatureInsightTemplate(feature_name, template_key) ==
    CASE feature_name = "Sleep_Duration" /\ template_key = "low" ->
            "Your sleep duration appears to be a key factor affecting your stress levels"
      [] feature_name = "Sleep_Duration" /\ template_key = "high" ->
            "Your adequate sleep duration is helping maintain lower stress levels"
      [] feature_name = "Work_Hours" /\ template_key = "low" ->
            "Your work hours are a significant factor in your stress assessment"
      [] feature_name = "Work_Hours" /\ template_key = "high" ->
            "Long work hours appear to be a major contributor to your stress levels"
      [] feature_name = "Physical_Activity" /\ template_key = "low" ->
            "Your physical activity level is significantly impacting your stress levels"
      [] feature_name = "Physical_Activity" /\ template_key = "high" ->
            "Your active lifestyle is positively influencing your stress management"
      [] feature_name = "Screen_Time" /\ template_key = "low" ->
            "Screen time usage appears to be affecting your stress levels"
      [] feature_name = "Screen_Time" /\ template_key = "high" ->
            "High screen time may be contributing to your elevated stress levels"
      [] feature_name = "Sleep_Quality" /\ template_key = "low" ->
            "Sleep quality is a key factor in your stress level assessment"
      [] OTHER ->
            "Good sleep quality is helping you manage stress effectively"

TemplatedFeatures ==
    {"Sleep_Duration", "Work_Hours", "Physical_Activity", "Screen_Time", "Sleep_Quality"}

_generate_feature_insight(feature_name, feature_value) ==
    IF feature_name \notin TemplatedFeatures THEN << >>
    ELSE LET threshold ==
                 CASE feature_name = "Sleep_Duration" -> 300
                   [] feature_name \in {"Physical_Activity", "Sleep_Quality"} -> 3
                   [] OTHER -> 800
             template_key ==
                 IF feature_value.k = "num" /\ feature_value.n >= threshold
                 THEN "high" ELSE "low"
         IN  << FeatureInsightTemplate(feature_name, template_key) >>

(* sorted(feature_importance.items(), key=lambda x: x[1], reverse=True):   *)
(* by falling importance, equal importances in the order of the dict.      *)
SortedByImportance(feature_importance) ==
    LET n == Len(feature_importance)
        rank(i) == 1 + Cardinality({ j \in 1..n :
                        \/ feature_importance[j].value > feature_importance[i].value
                        \/ /\ feature_importance[j].value = feature_importance[i].value
                           /\ j < i })
    IN  [r \in 1..n |-> feature_importance[CHOOSE i \in 1..n : rank(i) = r]]

(* q[:n]                                                                   *)
Take(q, n) == SubSeq(q, 1, IF Len(q) < n THEN Len(q) ELSE n)

(* The feature-importance part of _generate_enhanced_insights: of the top  *)
(* three features, each one whose importance exceeds 0.1.                  *)
FeatureImportanceInsights(input_data, feature_importance) ==
    LET top_features == Take(SortedByImportance(feature_importance), 3)
        insight(i) ==
            IF i <= Len(top_features) /\ top_features[i].value > 10
            THEN _generate_feature_insight(top_features[i].name,
                     IF top_features[i].name \in DOMAIN input_data
                     THEN input_data[top_features[i].name] ELSE Absent)
            ELSE << >>
    IN  insight(1) \o insight(2) \o insight(3)

(* ResponseFormatter._generate_level_specific_insights                     *)
LowLevelInsight == "You're managing stress well - keep up the good work!"
MediumLevelInsight == "There's room for improvement in your stress management"
HighLevelInsight == "Your stress levels indicate a need for immediate attention"
HighCaffeineInsight == "High caffeine intake may be exacerbating your stress"
SocialInsight == "Limited social interactions may be affecting your stress levels"

_generate_level_specific_insights(stress_level, input_data) ==
    CASE stress_level = "Low" -> << LowLevelInsight >>
      [] stress_level = "Medium" -> << MediumLevelInsight >>
      [] OTHER ->
            << HighLevelInsight >>
            \o (IF GetOrZero(input_data, "Caffeine_Intake").n > 3
                THEN << HighCaffeineInsight >> ELSE << >>)
            \o (IF GetOrZero(input_data, "Social_Interactions").n < 2
                THEN << SocialInsight >> ELSE << >>)

(* f"Your current stress level is {stress_level.value.lower()}"            *)
GenericInsight(stress_level) == "Your current stress level is " \o Lower(stress_level)

(* ResponseFormatter._generate_enhanced_insights                           *)
_generate_enhanced_insights(input_data, stress_level, feature_importance) ==
    LET insights ==
            FeatureImportanceInsights(input_data, feature_importance)
            \o _generate_lifestyle_insights(input_data)
            \o _generate_level_specific_insights(stress_level, input_data)
    IN  IF insights = << >> THEN << GenericInsight(stress_level) >>
        ELSE Take(insights, 5)

(* ResponseFormatter._initialize_recommendation_templates                  *)
recommendation_templates(stress_level) ==
    CASE stress_level = "Low" ->
            << "Maintain your current healthy lifestyle habits",
               "Continue regular physical activity and good sleep schedule",
               "Keep practicing stress-prevention techniques" >>
      [] stress_level = "Medium" ->
            << "Focus on improving sleep quality and duration",
               "Incorporate regular physical exercise into your routine",
               "Practice stress-reduction techniques like deep breathing",
               "Consider time management strategies to reduce daily pressure" >>
      [] OTHER ->
            << "Prioritize getting adequate sleep (7-9 hours per night)",
               "Engage in regular physical activity to reduce stress hormones",
               "Practice meditation or mindfulness exercises daily",
               "Consider speaking with a healthcare professional",
               "Implement immediate stress-relief techniques",
               "Review and adjust your daily schedule to reduce pressure" >>

(* ResponseFormatter._generate_personal_recommendations                    *)
SleepRecommendation == "Aim for 7-9 hours of sleep per night"
SleepQualityRecommendation == "Focus on improving sleep quality through better sleep hygiene"
ActivityRecommendation == "Start with 30 minutes of daily physical activity"
VigorousRecommendation == "Consider adding more vigorous exercise to your routine"
WorkRecommendation == "Try to establish better work-life boundaries"
ScreenRecommendation == "Consider reducing screen time, especially before bed"
MeditationRecommendation == "Try incorporating 10 minutes of daily meditation or mindfulness"

_generate_personal_recommendations(input_data) ==
    LET N(f) == GetOrZero(input_data, f).n
        exercise_type == IF "Exercise_Type" \in DOMAIN input_data
                         THEN input_data["Exercise_Type"].s ELSE ""
        meditation == IF "Meditation_Practice" \in DOMAIN input_data
                      THEN input_data["Meditation_Practice"].s ELSE "No"
    IN  (IF N("Sleep_Duration") < 700 THEN << SleepRecommendation >> ELSE << >>)
        \o (IF N("Sleep_Quality") < 3 THEN << SleepQualityRecommendation >> ELSE << >>)
        \o (IF N("Physical_Activity") < 2 THEN << ActivityRecommendation >>
            ELSE IF exercise_type \in {"Walking", "Yoga"}
            THEN << VigorousRecommendation >> ELSE << >>)
        \o (IF N("Work_Hours") > 1000 THEN << WorkRecommendation >> ELSE << >>)
        \o (IF N("Screen_Time") > 800 THEN << ScreenRecommendation >> ELSE << >>)
        \o (IF meditation = "No" THEN << MeditationRecommendation >> ELSE << >>)

(* The loop over seen / unique_recommendations: each entry at its first    *)
(* occurrence.                                                             *)
Unique(recommendations) ==
    LET first(i) == \A j \in 1..(i - 1) : recommendations[j] # recommendations[i]
        position(r) == CHOOSE i \in 1..Len(recommendations) :
                          /\ first(i)
                          /\ Cardinality({ j \in 1..i : first(j) }) = r
    IN  [r \in 1..Cardinality({ i \in 1..Len(recommendations) : first(i) }) |->
            recommendations[position(r)]]

(* ResponseFormatter._generate_personalized_recommendations                *)
PersonalFirstRecommendations(stress_level, input_data) ==
    Take(Unique(_generate_personal_recommendations(input_data)
                \o recommendation_templates(stress_level)), 6)

_generate_personalized_recommendations(stress_level, input_data) ==
    Take(Unique(recommendation_templates(stress_level)
                \o _generate_personal_recommendations(input_data)), 6)

(* ResponseFormatter._initialize_wellness_templates: a template task is a  *)
(* task without an id.                                                     *)
TaskData(title, type, link, reward) ==
    [title |-> title, type |-> type, link |-> link, reward |-> reward]

wellness_task_templates(stress_level) ==
    CASE stress_level = "Low" ->
            << TaskData("Maintain Current Healthy Habits", "lifestyle", "/wellness/habit-maintenance", 10),
               TaskData("Weekly Stress Check-in", "tool", "/tools/stress-tracker", 15) >>
      [] stress_level = "Medium" ->
            << TaskData("Deep Breathing Exercises", "tool", "/tools/breathing-exercises", 20),
               TaskData("Improve Sleep Hygiene", "article", "/articles/sleep-hygiene", 25),
               TaskData("Regular Exercise Routine", "lifestyle", "/wellness/exercise-plan", 30) >>
      [] OTHER ->
            << TaskData("Immediate Stress Relief Techniques", "tool", "/tools/emergency-calm", 35),
               TaskData("Professional Support Resources", "article", "/articles/professional-help", 40),
               TaskData("Comprehensive Lifestyle Changes", "lifestyle", "/wellness/lifestyle-overhaul", 45),
               TaskData("Daily Meditation Practice", "tool", "/tools/meditation-program", 30) >>

(* ResponseFormatter._generate_personal_tasks                              *)
_generate_personal_tasks(input_data) ==
    LET N(f) == GetOrZero(input_data, f).n
        meditation == IF "Meditation_Practice" \in DOMAIN input_data
                      THEN input_data["Meditation_Practice"].s ELSE "No"
    IN  (IF N("Sleep_Duration") < 700
         THEN << TaskData("Establish Better Sleep Schedule", "lifestyle", "/wellness/sleep-schedule", 25) >>
         ELSE << >>)
        \o (IF N("Physical_Activity") < 2
            THEN << TaskData("Start Daily Walking Routine", "tool", "/tools/walking-tracker", 20) >>
            ELSE << >>)
        \o (IF meditation = "No"
            THEN << TaskData("Begin Mindfulness Practice", "tool", "/tools/meditation-guide", 15) >>
            ELSE << >>)
        \o (IF N("Screen_Time") > 800
            THEN << TaskData("Digital Detox Challenge", "lifestyle", "/wellness/digital-detox", 30) >>
            ELSE << >>)

(* f"task-{i+1}-{uuid.uuid4().hex[:8]}": the position in the plan and the  *)
(* first eight digits of a random UUID.                                    *)
TaskId(position, uuid) == [prefix |-> "task", position |-> position, uuid |-> uuid]

(* The eight digits uuid.uuid4() may give, two of them.                    *)
Uuids == {"3f2a9c1e", "b07d44e6"}

(* ResponseFormatter._generate_wellness_tasks (all_tasks[:6]); uuids[i]   *)
(* is what the i-th uuid.uuid4() of the call gives.                        *)
_generate_wellness_tasks(stress_level, input_data, uuids) ==
    LET all_tasks == wellness_task_templates(stress_level)
                     \o _generate_personal_tasks(input_data)
        shown == Take(all_tasks, 6)
    IN  [i \in 1..Len(shown) |->
            [ id |-> TaskId(i, uuids[i]), title |-> shown[i].title,
              type |-> shown[i].type, link |-> shown[i].link,
              reward |-> shown[i].reward ]]

(* ResponseFormatter._generate_plan_title, _generate_plan_summary and      *)
(* _create_wellness_plan                                                   *)
_generate_plan_title(stress_level) ==
    CASE stress_level = "Low" -> "Stress Maintenance Plan"
      [] stress_level = "Medium" -> "Stress Reduction Plan"
      [] OTHER -> "Intensive Stress Management Plan"

_generate_plan_summary(stress_level, input_data) ==
    (CASE stress_level = "Low" ->
            "A maintenance plan to help you continue managing stress effectively"
       [] stress_level = "Medium" ->
            "A focused plan to help reduce your stress levels through targeted interventions"
       [] OTHER ->
            "An intensive plan designed to significantly reduce your stress levels")
    \o (IF GetOrZero(input_data, "Sleep_Duration").n < 600
        THEN " with a focus on improving sleep quality"
        ELSE IF GetOrZero(input_data, "Physical_Activity").n < 2
        THEN " emphasizing increased physical activity" ELSE "")

formatter_create_wellness_plan(stress_level, input_data, uuids) ==
    [ title   |-> _generate_plan_title(stress_level),
      summary |-> _generate_plan_summary(stress_level, input_data),
      tasks   |-> _generate_wellness_tasks(stress_level, input_data, uuids) ]

(* ResponseFormatter._create_fallback_response                             *)
_create_fallback_response ==
    [ level           |-> "Medium",
      score           |-> 50,
      confidence      |-> 50,
      insights        |-> << "Unable to analyze data at this time" >>,
      recommendations |-> << "Please try again later" >>,
      wellness_plan   |->
        [ title   |-> "Basic Wellness Plan",
          summary |-> "A simple plan to help manage stress",
          tasks   |-> << Task("fallback-1", "Practice Deep Breathing", "tool", "/tools/breathing", 10),
                         Task("fallback-2", "Take a Short Walk", "lifestyle", "/wellness/walking", 15) >> ] ]

(* ResponseFormatter.format_prediction_response. prediction_result holds   *)
(* level, confidence (Absent when the key is missing) and                  *)
(* feature_importance; StressPredictionResponse refuses a confidence       *)
(* outside [0, 1], and the refusal is answered by the fallback response.   *)
format_prediction_response(prediction_result, input_data, uuids) ==
    LET stress_level == _categorize_stress_level(prediction_result.level)
        numerical_score ==
            _calculate_numerical_score(stress_level, prediction_result.confidence)
        confidence == IF prediction_result.confidence.k = "absent" THEN 80
                      ELSE prediction_result.confidence.n
    IN  IF confidence < 0 \/ confidence > 100 \/ numerical_score < 0
           \/ numerical_score > 100
        THEN _create_fallback_response
        ELSE [ level           |-> stress_level,
               score           |-> numerical_score,
               confidence      |-> confidence,
               insights        |-> _generate_enhanced_insights(input_data, stress_level,
                                       prediction_result.feature_importance),
               recommendations |-> _generate_personalized_recommendations(stress_level,
                                       input_data),
               wellness_plan   |-> formatter_create_wellness_plan(stress_level, input_data,
                                       uuids) ]

(* The inputs the formatter is applied to.                                 *)
FormatterInputs ==
    ThresholdInputs
      \cup { TypicalInput,
             InputWith([Physical_Activity |-> Num(4), Screen_Time |-> Num(1010)]),
             InputWith([Meditation_Practice |-> Str("No")]) }

(* feature_importance dicts: the importances (hundredths) of the features  *)
(* of ExpectedFeatures in that order; << >> is the empty dict.             *)
Importances(weights) ==
    [i \in 1..Len(ExpectedFeatures) |->
        [name |-> ExpectedFeatures[i], value |-> weights[i]]]

FormatterImportances ==
    { << >>,
      Importances(<< 5, 2, 30, 6, 4, 15, 3, 2, 25, 2, 2, 2, 2 >>),
      Importances(<< 8, 7, 8, 8, 8, 8, 7, 7, 10, 7, 7, 7, 8 >>),
      Importances(<< 40, 8, 5, 20, 5, 5, 3, 2, 5, 2, 2, 2, 1 >>),
      Importances(<< 9, 9, 9, 9, 12, 9, 9, 5, 9, 5, 5, 5, 5 >>) }

(* prediction_result dicts.                                                *)
PredictionResult(level, confidence, feature_importance) ==
    [level |-> level, confidence |-> confidence,
     feature_importance |-> feature_importance]

RawLevels ==
    { Str("Low"), Str("Medium"), Str("High"), Str("high "), Str("Severe"),
      Num(20), Num(50), Num(90) }

Confidences ==
    { Num(0), Num(10), Num(50), Num(60), Num(80), Num(90), Num(100), Num(150),
      Absent }

(* Inputs around the thresholds of the recommendation and task rules.      *)
RecommendationInputs ==
    { InputWith([Sleep_Duration |-> Num(sleep), Sleep_Quality |-> Num(quality),
                 Physical_Activity |-> Num(activity), Exercise_Type |-> Str(exercise),
                 Work_Hours |-> Num(1000), Screen_Time |-> Num(800),
                 Meditation_Practice |-> Str(meditation)]) :
        sleep \in {690, 700}, quality \in {2, 3}, activity \in {1, 2},
        exercise \in {"Cardio", "Yoga"}, meditation \in {"Yes", "No"} }
      \cup { InputWith([Work_Hours |-> Num(1010), Screen_Time |-> Num(810)]),
             InputWith([Sleep_Duration |-> Num(500), Sleep_Quality |-> Num(1),
                        Physical_Activity |-> Num(0), Work_Hours |-> Num(1200),
                        Screen_Time |-> Num(1100), Caffeine_Intake |-> Num(5),
                        Social_Interactions |-> Num(1),
                        Meditation_Practice |-> Str("No")]) }

(* The calls of format_prediction_response: every level and confidence on  *)
(* one input, every feature_importance on the inputs of the insight rules, *)
(* every label on the inputs of the recommendation rules.                  *)
FormatterCalls ==
    { [prediction_result |-> PredictionResult(level, confidence, << >>),
       input_data |-> TypicalInput] :
        level \in RawLevels, confidence \in Confidences }
      \cup
    { [prediction_result |-> PredictionResult(Str(level), Num(80), importance),
       input_data |-> input_data] :
        level \in {"Low", "High"}, importance \in FormatterImportances,
        input_data \in { TypicalInput,
                         InputWith([Sleep_Duration |-> Num(250),
                                    Work_Hours |-> Num(1100),
                                    Screen_Time |-> Num(1100),
                                    Physical_Activity |-> Num(0),
                                    Caffeine_Intake |-> Num(5),
                                    Social_Interactions |-> Num(1)]),
                         InputWith([Sleep_Duration |-> Absent,
                                    Meditation_Practice |-> Str("No"),
                                    Physical_Activity |-> Num(3)]) } }
      \cup
    { [prediction_result |-> PredictionResult(Str(level), Num(90), << >>),
       input_data |-> input_data] :
        level \in {"Low", "Medium", "High"}, input_data \in RecommendationInputs }

NoFormatterCall == [op |-> "none", input |-> TypicalInput, insights |-> << >>]

InitF ==
    /\ raw_input = ExampleBody
    /\ validation = NotValidated
    /\ service = NoneService
    /\ service_ret = NoCall
    /\ phase = "running"
    /\ fs = [test |-> FileAbsent, prod |-> FileAbsent]
    /\ model_files = << >>
    /\ model_loaded = FALSE
    /\ model_service = NoneService
    /\ model_path = TestPath
    /\ prediction_cache = EmptyCache
    /\ now = 0
    /\ last = NoFormatterCall

LifestyleInsights ==
    /\ \E input_data \in FormatterInputs :
         last' = [ op |-> "lifestyle_insights", input |-> input_data,
                   insights |-> _generate_lifestyle_insights(input_data) ]
    /\ UNCHANGED <<raw_input, validation, phase, fs, model_files, model_loaded,
                   model_service, model_path, prediction_cache, now, service,
                   service_ret>>

(* One call of format_prediction_response on a fresh formatter.            *)
FormatResponse ==
    /\ last.op = "none"
    /\ \E call \in FormatterCalls :
         \E uuids \in [1..6 -> Uuids] :
           \E response \in { format_prediction_response(call.prediction_result,
                                  call.input_data, uuids) } :
             last' = [ op |-> "format_prediction_response",
                       input |-> call.input_data,
                       insights |-> response.insights,
                       prediction_result |-> call.prediction_result,
                       response |-> response ]
    /\ UNCHANGED <<raw_input, validation, phase, fs, model_files, model_loaded,
                   model_service, model_path, prediction_cache, now, service,
                   service_ret>>

NextF == LifestyleInsights \/ FormatResponse

SpecF == InitF /\ [][NextF]_vars

(* The insight is one of those produced.                                   *)
Produced(insight) == \E i \in 1..Len(last.insights) : last.insights[i] = insight

(* C20: the insight rules use strict thresholds: the low-sleep insight     *)
(* only when sleep_duration < 6, the long-hours insight only when          *)
(* work_hours > 10 (a long commute with work_hours <= 10 does not count),  *)
(* the low-activity insight only when physical_activity < 1, the           *)
(* high-screen-time insight only when screen_time > 8.                     *)
C20_StrictThresholds ==
    last.op = "lifestyle_insights" =>
        /\ Produced(SleepLowInsight) => last.input["Sleep_Duration"].n < 600
        /\ (Produced(WorkInsight) \/ Produced(WorkCommuteInsight))
              => last.input["Work_Hours"].n > 1000
        /\ Produced(ActivityInsight) => last.input["Physical_Activity"].n < 1
        /\ Produced(ScreenInsight) => last.input["Screen_Time"].n > 800

-----------------------------------------------------------------------------
(* The formatter answered with a formatted response, not with its          *)
(* fallback.                                                               *)
Formatted ==
    /\ last.op = "format_prediction_response"
    /\ last.response # _create_fallback_response

(* The sentences of the feature-insight template table.                    *)
FeatureInsightSentences ==
    { FeatureInsightTemplate(f, k) : f \in TemplatedFeatures, k \in {"low", "high"} }

(* C21: at most one insight is derived from feature importance: it names   *)
(* the single highest-weighted feature and appears only if that weight     *)
(* exceeds 0.1; without feature importance, or with a top weight of at     *)
(* most 0.1, no feature-importance insight appears.                        *)
C21_OneFeatureInsight ==
    Formatted =>
        LET feature_importance == last.prediction_result.feature_importance
            derived == { i \in 1..Len(last.response.insights) :
                           last.response.insights[i] \in FeatureInsightSentences }
        IN  /\ Cardinality(derived) <= 1
            /\ derived # {} =>
                  /\ feature_importance # << >>
                  /\ SortedByImportance(feature_importance)[1].value > 10
                  /\ \A i \in derived :
                        \E k \in {"low", "high"} :
                           last.response.insights[i] =
                              FeatureInsightTemplate(TopFeature(feature_importance), k)

-----------------------------------------------------------------------------
(* C22: the insight list has at most 5 entries, and the generic sentence   *)
(* "current stress level is {label}" is emitted exactly when no insight    *)
(* rule triggered, being then the only insight.                            *)
C22_InsightsCapped ==
    (service_ret.op = "predict" /\ service_ret.ret) =>
        LET insights == service_ret.out.result.insights
            generic == { i \in 1..Len(insights) :
                           insights[i] = GenericInsight(service_ret.out.result.level) }
        IN  /\ Len(insights) >= 1
            /\ Len(insights) <= 5
            /\ generic # {} => Len(insights) = 1

-----------------------------------------------------------------------------
(* C23: the recommendation list is the first 6 entries of the              *)
(* de-duplicated concatenation of the label's template list (3 entries for *)
(* Low, 4 for Medium, 6 for High) and the personalized recommendations of  *)
(* exactly the rules sleep_duration < 7, physical_activity < 2,            *)
(* work_hours > 10, screen_time > 8, meditation_practice = No; no other    *)
(* input field adds a recommendation.                                      *)
C23_RecommendationRules ==
    Formatted =>
        LET input_data == last.input
            level == last.response.level
            N(f) == GetOrZero(input_data, f).n
            personalized ==
                (IF N("Sleep_Duration") < 700 THEN << SleepRecommendation >> ELSE << >>)
                \o (IF N("Physical_Activity") < 2 THEN << ActivityRecommendation >> ELSE << >>)
                \o (IF N("Work_Hours") > 1000 THEN << WorkRecommendation >> ELSE << >>)
                \o (IF N("Screen_Time") > 800 THEN << ScreenRecommendation >> ELSE << >>)
                \o (IF "Meditation_Practice" \in DOMAIN input_data
                       /\ input_data["Meditation_Practice"].s = "No"
                    THEN << MeditationRecommendation >> ELSE << >>)
        IN  /\ Len(recommendation_templates(level)) =
                  (CASE level = "Low" -> 3 [] level = "Medium" -> 4 [] OTHER -> 6)
            /\ last.response.recommendations =
                  Take(Unique(recommendation_templates(level) \o personalized), 6)

-----------------------------------------------------------------------------
(* The ids of the tasks of a wellness plan.                                *)
TaskIds(plan) == { plan.tasks[i].id : i \in 1..Len(plan.tasks) }

(* C24: a returned plan has at most 6 tasks, and every task carries a      *)
(* freshly generated id: one that differs from the id of every other task  *)
(* of the plan, and that no plan computed by an earlier call (here the     *)
(* plans held by the cache under other keys) carries.                      *)
C24_FreshTaskIds ==
    (last.op = "predict" /\ last.path = "fresh") =>
        LET plan == last.response.wellness_plan
        IN  /\ Len(plan.tasks) <= 6
            /\ \A i, j \in 1..Len(plan.tasks) :
                  i # j => plan.tasks[i].id # plan.tasks[j].id
            /\ \A key \in DOMAIN prediction_cache \ {last.key} :
                  TaskIds(prediction_cache[key].response.wellness_plan)
                     \cap TaskIds(plan) = {}

-----------------------------------------------------------------------------
(* The call just answered returned the fallback response.                  *)
AnsweredWithFallback(reply) ==
    reply.op = "predict" /\ reply.response = FallbackResponse

(* C25: the cache only ever holds responses of a successful inference: a   *)
(* call answered with the fallback response (no model, encoding or         *)
(* inference failure, None result, formatting failure, unexpected          *)
(* exception) writes nothing to the cache, so its key is not cached after  *)
(* it and the request is recomputed on its next call.                      *)
C25_FallbackNeverCached ==
    [][ /\ \A key \in DOMAIN prediction_cache' :
              prediction_cache'[key].response # FallbackResponse
        /\ AnsweredWithFallback(last') =>
              /\ \A key \in DOMAIN prediction_cache' :
                    /\ key \in DOMAIN prediction_cache
                    /\ prediction_cache'[key] = prediction_cache[key]
              /\ last'.key \notin DOMAIN prediction_cache' ]_vars

C25_Witness ==
    /\ AnsweredWithFallback(last)
    /\ last.path \in {"fallback_none", "fallback_model_error", "fallback_format"}
    /\ last.clf_calls = 1
    /\ prediction_cache # EmptyCache
    /\ last.key \notin DOMAIN prediction_cache

-----------------------------------------------------------------------------
(* C26: a cache hit leaves the cache unchanged: the hit entry keeps its    *)
(* creation time, no other entry is swept, no key is added or removed; the *)
(* entry returned was created less than the TTL ago, however often it was  *)
(* hit before.                                                             *)
C26_HitLeavesCache ==
    [][ (last'.op = "predict" /\ last'.path = "cache_hit") =>
            /\ prediction_cache' = prediction_cache
            /\ last'.key \in DOMAIN prediction_cache
            /\ last'.response = prediction_cache[last'.key].response
            /\ now - prediction_cache[last'.key].timestamp < cache_ttl ]_vars

(* A hit while another entry of the cache has expired: the hit does not    *)
(* sweep it.                                                               *)
C26_Witness ==
    /\ last.op = "predict" /\ last.path = "cache_hit"
    /\ now - prediction_cache[last.key].timestamp > 0
    /\ \E key \in DOMAIN prediction_cache :
          /\ key # last.key
          /\ now - prediction_cache[key].timestamp > cache_ttl

-----------------------------------------------------------------------------
(* C27: once startup_event has returned, on whichever path, the global     *)
(* model_loaded is true exactly when model_service is not None and its     *)
(* is_loaded is true, and so in every later state.                         *)
C27_LoadedFlagAgrees ==
    phase = "running" =>
        (model_loaded <=> (~model_service.is_none /\ model_service.is_loaded))

(* A prediction served, after time has passed, by the model loaded from    *)
(* the second candidate after the first one failed to load.                *)
C27_Witness ==
    /\ phase = "running"
    /\ model_loaded /\ ~model_service.is_none /\ model_service.is_loaded
    /\ model_path = ProductionPath
    /\ fs.test.exists
    /\ now > 0
    /\ last.op = "predict"

-----------------------------------------------------------------------------
(* C28: when the label is High the formatter's recommendations are exactly *)
(* the six entries of the High template, in template order, for every      *)
(* input: the template fills the cap of 6, so no personalized              *)
(* recommendation appears.                                                 *)
C28_HighIsTemplate ==
    (Formatted /\ last.response.level = "High") =>
        /\ last.response.recommendations =
              << "Prioritize getting adequate sleep (7-9 hours per night)",
                 "Engage in regular physical activity to reduce stress hormones",
                 "Practice meditation or mindfulness exercises daily",
                 "Consider speaking with a healthcare professional",
                 "Implement immediate stress-relief techniques",
                 "Review and adjust your daily schedule to reduce pressure" >>
        /\ \A i \in 1..Len(last.response.recommendations) :
              last.response.recommendations[i] \notin
                 { SleepRecommendation, SleepQualityRecommendation,
                   ActivityRecommendation, VigorousRecommendation,
                   WorkRecommendation, ScreenRecommendation,
                   MeditationRecommendation }

(* A High response for an input that triggers personalized                 *)
(* recommendations.                                                        *)
C28_Witness ==
    /\ Formatted
    /\ last.response.level = "High"
    /\ Len(_generate_personal_recommendations(last.input)) >= 5

-----------------------------------------------------------------------------
(* The four fields load_model fills.                                       *)
LoadedFields(obj) ==
    << obj.model, obj.feature_names, obj.model_name, obj.model_score >>

(* The file holds an artifact that passes every check of load_model.       *)
PassesLoadChecks(f) ==
    /\ f.exists /\ f.size > 0 /\ f.unpickles
    /\ RequiredKeySet \subseteq f.artifact.keys
    /\ f.artifact.model.has_predict

(* C29: over any sequence of load_model calls on one ModelService, while   *)
(* is_loaded is true the fields model, feature_names, model_name and       *)
(* model_score all come from one artifact that passed every load check,    *)
(* the predict-capability check included; a load_model call that returns   *)
(* False leaves is_loaded false or the four fields as they were.           *)
C29_FieldsFromOneArtifact ==
    service # NoneService =>
        /\ service.is_loaded =>
              \E f \in ServiceFiles :
                 /\ PassesLoadChecks(f)
                 /\ LoadedFields(service) =
                       << f.artifact.model, f.artifact.feature_names,
                          f.artifact.model_name, f.artifact.model_score >>
        /\ (service_ret.op = "load_model" /\ ~service_ret.ret) =>
              \/ ~service.is_loaded
              \/ LoadedFields(service) = LoadedFields(service_ret.before)

-----------------------------------------------------------------------------
(* C30: in the formatter's confidence-adjusted score a higher confidence   *)
(* pushes the score toward the extremes: for High the score never          *)
(* decreases when the confidence increases, for Low it never increases,    *)
(* for Medium it is always 50, and for a confidence in [0, 1] the score    *)
(* lies within 10..90.                                                     *)
C30_ScoreTowardExtremes ==
    Formatted =>
        LET level == last.response.level
            score == last.response.score
            higher == { c \in Confidences :
                          c.k = "num" /\ c.n <= 100 /\ c.n >= last.response.confidence }
        IN  /\ score >= 10 /\ score <= 90
            /\ level = "Medium" => score = 50
            /\ level = "High" =>
                  \A c \in higher : _calculate_numerical_score("High", c) >= score
            /\ level = "Low" =>
                  \A c \in higher : _calculate_numerical_score("Low", c) <= score

=============================================================================
